---------------------------- MODULE Spec2Model ----------------------------
(***************************************************************************)
(* Model of the Slack bot's admission controller (SlackHandler: per-session *)
(* serialisation, global concurrency cap, queue re-dispatch) and of its     *)
(* approval gate (PermissionHandler: pending approvals, deadline timer,     *)
(* remembered approvals and their path check, shutdown), alone and with the *)
(* permission requests that executions raise; of the commands handled       *)
(* before admission (working directories, MCP, debug); and of the           *)
(* permission MCP server that relays the engine's requests to the gate.     *)
(***************************************************************************)
EXTENDS Integers, Sequences, FiniteSets, TLC

\* ---------------------------------------------------------------- bounds
MaxReqs == 3        \* messages submitted in one behaviour
MaxCap == 2         \* largest maxConcurrency tried (config value is free)
MaxRequests == 2    \* permission requests received in one behaviour
JointReqs == 2      \* messages, when executions raise permission requests
JointRequests == 1  \* permission requests raised by executions
MemoryRequests == 1 \* permission requests, when the memory starts filled
DispatchReqs == 4   \* messages, when every execution ends normally
StarveReqs == 4     \* message records kept, when messages never stop
DirectoryReqs == 2  \* messages, when commands change the directories
RelayReqs == 1      \* messages, when the permission relay is followed
RelayCalls == 1     \* permission_prompt calls made through the relay

\* Session keys (user-channel-thread strings); two conversations.
Keys == {"A", "B"}

VARIABLES
    maxConcurrency,     \* SlackHandler.maxConcurrency
    activeSessions,     \* SlackHandler.activeSessions : Set<string>
    activeConcurrency,  \* SlackHandler.activeConcurrency : number
    sessionQueues,      \* SlackHandler.sessionQueues : Map in insertion order
    activeControllers,  \* SlackHandler.activeControllers : key -> owner
    immediates,         \* callbacks scheduled with setImmediate, in order
    execs,              \* invocations of processClaudeQuery in progress
    reqs,               \* every message handed to the concurrency check
    server,             \* PermissionHandler.server: listening, closing, closed
    requests,           \* HTTP requests received by handleRequest
    pending,            \* PermissionHandler.pending : approvalId -> record
    responses,          \* what was written to each request's httpRes
    approvedTools,      \* PermissionHandler.approvedTools : dir -> tools
    cwd,                \* process.cwd() of the bot, read by path.resolve
    limits,             \* how many messages and requests a behaviour takes
    probe,              \* the last call of the auto-approval check alone
    configs,            \* WorkingDirectoryManager.configs : key -> directory
    said,               \* the last answer given to a message before admission
    calls               \* permission_prompt calls of the permission MCP servers

admVars == <<maxConcurrency, activeSessions, activeConcurrency, sessionQueues,
             activeControllers, immediates, execs, reqs>>
gateVars == <<server, requests, pending, responses, approvedTools>>
envVars == <<cwd, limits, probe, configs, said, calls>>
vars == <<admVars, gateVars, envVars>>

\* ------------------------------------------------------ working directories

\* Paths and directory names are strings, modelled as sequences of
\* one-character strings so that prefixes and segments can be computed.
Sep == "/"                          \* path.sep
Repo == <<"/", "r">>                \* the working directory "/r"
Repo2 == <<"/", "r", "2">>          \* its sibling "/r2"
NoDir == <<>>                       \* working_directory absent (or empty)
NoPath == <<>>                      \* a field the input does not carry

\* The two conversations are the sessions of two users in one thread of one
\* channel (the session key names the user, the configuration key does not):
\* the thread may carry an override, the channel a default.
ThreadKey == "C-T"
ChannelKey == "C"

\* getConfigKey for a message of that channel, inside the thread or not.
getConfigKey(threaded) == IF threaded THEN ThreadKey ELSE ChannelKey

\* getWorkingDirectory: the thread's entry if the message has a thread_ts
\* and the entry exists, else the channel's entry, else undefined.
getWorkingDirectory(cfg, threaded) ==
    IF threaded /\ ThreadKey \in DOMAIN cfg THEN cfg[ThreadKey]
    ELSE IF ChannelKey \in DOMAIN cfg THEN cfg[ChannelKey]
    ELSE NoDir

\* ------------------------------------------------ admission: pure helpers

\* Position of key k in the queue map, 0 when the map has no such key.
QueueIndex(queues, k) ==
    IF \E i \in 1..Len(queues) : queues[i].key = k
    THEN CHOOSE i \in 1..Len(queues) : queues[i].key = k
    ELSE 0

\* The function f restricted to S (Map.delete keeps the other entries).
Restrict(f, S) == [x \in S |-> f[x]]

\* The sequence s without its i-th element.
RemoveAt(s, i) == SubSeq(s, 1, i - 1) \o SubSeq(s, i + 1, Len(s))

\* enqueueMessage that sets a fresh queue instead of pushing onto the old one.
EnqueueDropsExisting(queues, k, r) ==
    LET i == QueueIndex(queues, k) IN
    IF i = 0 THEN Append(queues, [key |-> k, queue |-> <<r>>])
    ELSE [queues EXCEPT ![i].queue = <<r>>]

\* enqueueMessage: get the key's queue (or a new one), push, set.
enqueueMessage(queues, k, r) ==
    LET i == QueueIndex(queues, k) IN
    IF i = 0 THEN Append(queues, [key |-> k, queue |-> <<r>>])
    ELSE [queues EXCEPT ![i].queue = Append(@, r)]

\* The loop of processNextInQueue: the first map entry, in iteration order,
\* whose key is not active and whose queue is non-empty; 0 when there is none.
FirstEligible(queues, active) ==
    LET ok == {i \in 1..Len(queues) :
                 queues[i].key \notin active /\ Len(queues[i].queue) > 0} IN
    IF ok = {} THEN 0 ELSE CHOOSE i \in ok : \A j \in ok : i <= j

\* processNextInQueue without the return that follows setImmediate: the
\* loop goes on to the other keys.
processNextInQueueDrainsAll(queues, active, conc) ==
    LET Eligible(en) == en.key \notin active /\ Len(en.queue) > 0
        heads == SelectSeq(queues, Eligible)
        rest == [i \in 1..Len(queues) |->
                    IF Eligible(queues[i]) THEN [queues[i] EXCEPT !.queue = Tail(@)]
                    ELSE queues[i]]
        NonEmpty(en) == Len(en.queue) > 0
    IN IF conc >= maxConcurrency
       THEN [queues |-> queues, scheduled |-> <<>>]
       ELSE [queues |-> SelectSeq(rest, NonEmpty),
             scheduled |-> [i \in 1..Len(heads) |->
                               [key |-> heads[i].key, req |-> Head(heads[i].queue)]]]

\* processNextInQueue without the delete of a key whose queue got empty.
processNextInQueueKeepsKey(queues, active, conc) ==
    LET i == FirstEligible(queues, active) IN
    IF i = 0 \/ conc >= maxConcurrency
    THEN [queues |-> queues, scheduled |-> <<>>]
    ELSE [queues |-> [queues EXCEPT ![i].queue = Tail(@)],
          scheduled |-> <<[key |-> queues[i].key, req |-> Head(queues[i].queue)]>>]

\* processNextInQueue that takes the last eligible entry of the map.
processNextInQueuePicksLast(queues, active, conc) ==
    LET ok == {j \in 1..Len(queues) :
                 queues[j].key \notin active /\ Len(queues[j].queue) > 0}
        i == IF ok = {} THEN 0 ELSE CHOOSE j \in ok : \A n \in ok : n <= j
    IN IF i = 0 \/ conc >= maxConcurrency
       THEN [queues |-> queues, scheduled |-> <<>>]
       ELSE [queues |-> IF Len(queues[i].queue) = 1
                        THEN RemoveAt(queues, i)
                        ELSE [queues EXCEPT ![i].queue = Tail(@)],
             scheduled |-> <<[key |-> queues[i].key, req |-> Head(queues[i].queue)]>>]

\* processNextInQueue on the given state: the new queue map and the
\* callbacks it hands to setImmediate (at most one).
processNextInQueue(queues, active, conc) ==
    LET i == FirstEligible(queues, active) IN
    IF i = 0 \/ conc >= maxConcurrency
    THEN [queues |-> queues, scheduled |-> <<>>]
    ELSE LET entry == queues[i]
             next == Head(entry.queue)
         IN [queues |-> IF Len(entry.queue) = 1
                        THEN RemoveAt(queues, i)
                        ELSE [queues EXCEPT ![i].queue = Tail(@)],
             scheduled |-> <<[key |-> entry.key, req |-> next]>>]

\* ------------------------------------------------------ admission: actions

\* The record of a message of the thread that reached the concurrency check,
\* with the working directory handleMessage looked up for it.
NewReq(k, note) ==
    [key |-> k, notified |-> note, releases |-> 0, outcome |-> "none",
     dir |-> getWorkingDirectory(configs, TRUE)]

\* processClaudeQuery that runs a request in the directory found for it by
\* handleMessage when it was submitted.
processClaudeQueryStartKeepsDirectory(k, r) ==
    /\ activeSessions' = activeSessions \cup {k}
    /\ activeConcurrency' = activeConcurrency + 1
    /\ activeControllers' = [j \in DOMAIN activeControllers \cup {k} |->
                               IF j = k THEN r ELSE activeControllers[j]]
    /\ execs' = execs \cup {[req |-> r, key |-> k, phase |-> "try", aborted |-> FALSE,
                              dir |-> IF r \in 1..Len(reqs) THEN reqs[r].dir
                                      ELSE getWorkingDirectory(configs, TRUE)]}

\* The head of processClaudeQuery up to its first await: mark the session
\* active, count it, look the working directory up afresh, install its
\* AbortController, enter the try block.
processClaudeQueryStart(k, r) ==
    /\ activeSessions' = activeSessions \cup {k}
    /\ activeConcurrency' = activeConcurrency + 1
    /\ activeControllers' = [j \in DOMAIN activeControllers \cup {k} |->
                               IF j = k THEN r ELSE activeControllers[j]]
    /\ execs' = execs \cup {[req |-> r, key |-> k, phase |-> "try", aborted |-> FALSE,
                              dir |-> getWorkingDirectory(configs, TRUE)]}

\* handleMessage that queues every message while any execution is in
\* progress, as a handler that waited for the running one would.
handleMessageSerialisesAll(k) ==
    /\ getWorkingDirectory(configs, TRUE) # NoDir
    /\ Len(reqs) < limits.reqs
    /\ LET r == Len(reqs) + 1 IN
       IF k \in activeSessions
       THEN /\ sessionQueues' = enqueueMessage(sessionQueues, k, r)
            /\ reqs' = Append(reqs, NewReq(k, "QueuedSession"))
            /\ UNCHANGED <<activeSessions, activeConcurrency, activeControllers, execs>>
       ELSE IF activeConcurrency >= 1
       THEN /\ sessionQueues' = enqueueMessage(sessionQueues, k, r)
            /\ reqs' = Append(reqs, NewReq(k, "QueuedBusy"))
            /\ UNCHANGED <<activeSessions, activeConcurrency, activeControllers, execs>>
       ELSE /\ processClaudeQueryStart(k, r)
            /\ reqs' = Append(reqs, NewReq(k, "none"))
            /\ UNCHANGED sessionQueues
    /\ UNCHANGED <<maxConcurrency, immediates, gateVars, envVars>>

\* handleMessage for a message of the thread that is no command and whose
\* conversation has a working directory: the concurrency check and what
\* follows it.
handleMessage(k) ==
    /\ getWorkingDirectory(configs, TRUE) # NoDir
    /\ Len(reqs) < limits.reqs
    /\ LET r == Len(reqs) + 1 IN
       IF k \in activeSessions
       THEN /\ sessionQueues' = enqueueMessage(sessionQueues, k, r)
            /\ reqs' = Append(reqs, NewReq(k, "QueuedSession"))
            /\ UNCHANGED <<activeSessions, activeConcurrency, activeControllers, execs>>
       ELSE IF activeConcurrency >= maxConcurrency
       THEN /\ sessionQueues' = enqueueMessage(sessionQueues, k, r)
            /\ reqs' = Append(reqs, NewReq(k, "QueuedBusy"))
            /\ UNCHANGED <<activeSessions, activeConcurrency, activeControllers, execs>>
       ELSE /\ processClaudeQueryStart(k, r)
            /\ reqs' = Append(reqs, NewReq(k, "none"))
            /\ UNCHANGED sessionQueues
    /\ UNCHANGED <<maxConcurrency, immediates, gateVars, envVars>>

\* handleMessage for a message whose record takes the place of that of a
\* finished request r: the history keeps limits.reqs records, the messages
\* go on arriving.
handleMessageOver(k, r) ==
    /\ getWorkingDirectory(configs, TRUE) # NoDir
    /\ Len(reqs) = limits.reqs
    /\ r \in 1..Len(reqs) /\ reqs[r].releases > 0
    /\ IF k \in activeSessions
       THEN /\ sessionQueues' = enqueueMessage(sessionQueues, k, r)
            /\ reqs' = [reqs EXCEPT ![r] = NewReq(k, "QueuedSession")]
            /\ UNCHANGED <<activeSessions, activeConcurrency, activeControllers, execs>>
       ELSE IF activeConcurrency >= maxConcurrency
       THEN /\ sessionQueues' = enqueueMessage(sessionQueues, k, r)
            /\ reqs' = [reqs EXCEPT ![r] = NewReq(k, "QueuedBusy")]
            /\ UNCHANGED <<activeSessions, activeConcurrency, activeControllers, execs>>
       ELSE /\ processClaudeQueryStart(k, r)
            /\ reqs' = [reqs EXCEPT ![r] = NewReq(k, "none")]
            /\ UNCHANGED sessionQueues
    /\ UNCHANGED <<maxConcurrency, immediates, gateVars, envVars>>

\* ------------------------------------------------- handleMessage: commands

\* What say() was given: the sender's session key, the text, and the
\* directory the text names.
Say(k, text, dir) == <<[key |-> k, text |-> text, dir |-> dir]>>

\* Map.set on the configuration map.
SetConfig(cfg, c, d) == [x \in DOMAIN cfg \cup {c} |-> IF x = c THEN d ELSE cfg[x]]

\* The admission controller's fields and the rest, which no command of the
\* working-directory manager touches.
NotDirVars == <<admVars, gateVars, cwd, limits, probe, calls>>

\* A set command that waits its turn like a request: it is handled only
\* when its conversation is idle and a slot is free.
handleSetCommandWhenIdle(k, threaded, d, found) ==
    /\ k \notin activeSessions /\ activeConcurrency < maxConcurrency
    /\ IF found
       THEN /\ configs' = SetConfig(configs, getConfigKey(threaded), d)
            /\ said' = Say(k, IF threaded THEN "Working directory set for this thread"
                                          ELSE "Working directory set for this channel", d)
       ELSE /\ said' = Say(k, "Directory not found", d)
            /\ UNCHANGED configs
    /\ UNCHANGED NotDirVars

\* "cwd <path>": setWorkingDirectory, then the answer. found tells whether
\* resolveDirectory finds the path and it is a directory.
handleSetCommand(k, threaded, d, found) ==
    /\ IF found
       THEN /\ configs' = SetConfig(configs, getConfigKey(threaded), d)
            /\ said' = Say(k, IF threaded THEN "Working directory set for this thread"
                                          ELSE "Working directory set for this channel", d)
       ELSE /\ said' = Say(k, "Directory not found", d)
            /\ UNCHANGED configs
    /\ UNCHANGED NotDirVars

\* "cwd": getWorkingDirectoryWithSource and formatDirectoryMessage.
handleGetCommand(k, threaded) ==
    /\ LET dir == getWorkingDirectory(configs, threaded) IN
       said' = Say(k, IF dir = NoDir THEN "No working directory set for"
                      ELSE IF threaded /\ ThreadKey \in DOMAIN configs
                      THEN "Current working directory (thread override)"
                      ELSE "Current working directory (channel default)", dir)
    /\ UNCHANGED <<NotDirVars, configs>>

\* "reset cwd": in the thread, removeWorkingDirectory of the thread's entry
\* only; outside it, of the channel's entry.
handleResetCommand(k, threaded) ==
    /\ LET c == getConfigKey(threaded)
           removed == c \in DOMAIN configs
           channelDir == IF ChannelKey \in DOMAIN configs THEN configs[ChannelKey]
                         ELSE NoDir
       IN /\ configs' = Restrict(configs, DOMAIN configs \ {c})
          /\ said' = IF threaded
                     THEN IF removed
                          THEN Say(k, "Thread working directory override removed.", channelDir)
                          ELSE Say(k, "No thread-specific working directory was set.", NoDir)
                     ELSE IF removed
                          THEN Say(k, "Working directory removed for this channel.", NoDir)
                          ELSE Say(k, "No working directory was set.", NoDir)
    /\ UNCHANGED NotDirVars

\* "mcp": formatMcpInfo is sent.
handleMcpInfoCommand(k) ==
    /\ said' = Say(k, "MCP info", NoDir)
    /\ UNCHANGED <<NotDirVars, configs>>

\* "mcp reload": reloadConfiguration of the MCP manager, which succeeds or not.
handleMcpReloadCommand(k, reloaded) ==
    /\ said' = Say(k, IF reloaded THEN "MCP configuration reloaded successfully."
                                  ELSE "Failed to reload MCP configuration.", NoDir)
    /\ UNCHANGED <<NotDirVars, configs>>

\* The subcommands of "debug": the reports, and the reset of the approvals.
DebugCommands == {"", "sessions", "permissions reset"}

\* handleDebugCommand: "permissions reset" calls clearApprovals, every other
\* subcommand only reads.
handleDebugCommand(k, subCommand) ==
    /\ IF subCommand = "permissions reset"
       THEN /\ approvedTools' = <<>>
            /\ said' = Say(k, "All remembered tool approvals have been cleared.", NoDir)
       ELSE /\ said' = Say(k, IF subCommand = "sessions" THEN "Sessions"
                                                           ELSE "Debug Information", NoDir)
            /\ UNCHANGED approvedTools
    /\ UNCHANGED <<admVars, server, requests, pending, responses, cwd, limits, probe,
                   configs, calls>>

\* handleMessage for a message of the thread that is no command while no
\* working directory is configured: the hint is sent, nothing else happens.
handleMessageNoDirectory(k) ==
    /\ getWorkingDirectory(configs, TRUE) = NoDir
    /\ said' = Say(k, "No working directory set.", NoDir)
    /\ UNCHANGED <<NotDirVars, configs>>

\* A setImmediate callback that checks the key again and gives the request
\* up when its session has become active.
DeferredStartDropsBusy ==
    /\ immediates # <<>>
    /\ IF Head(immediates).key \in activeSessions
       THEN UNCHANGED <<activeSessions, activeConcurrency, activeControllers, execs>>
       ELSE processClaudeQueryStart(Head(immediates).key, Head(immediates).req)
    /\ immediates' = Tail(immediates)
    /\ UNCHANGED <<maxConcurrency, sessionQueues, reqs, gateVars, envVars>>

\* The callback given to setImmediate by processNextInQueue.
DeferredStart ==
    /\ immediates # <<>>
    /\ processClaudeQueryStart(Head(immediates).key, Head(immediates).req)
    /\ immediates' = Tail(immediates)
    /\ UNCHANGED <<maxConcurrency, sessionQueues, reqs, gateVars, envVars>>

\* An await inside processClaudeQuery settles and the invocation moves to
\* another await.
Advance(e, phase) ==
    /\ execs' = (execs \ {e}) \cup {[e EXCEPT !.phase = phase]}
    /\ UNCHANGED <<maxConcurrency, activeSessions, activeConcurrency, sessionQueues,
                   activeControllers, immediates, reqs, gateVars, envVars>>

\* A finally block that also tidies the approval gate: it drops what is
\* pending and forgets the remembered approvals.
ReleaseClearsGate(e, outcome) ==
    /\ LET active == activeSessions \ {e.key}
           conc == activeConcurrency - 1
           nxt == processNextInQueue(sessionQueues, active, conc)
       IN /\ activeControllers' = Restrict(activeControllers,
                                           DOMAIN activeControllers \ {e.key})
          /\ activeSessions' = active
          /\ activeConcurrency' = conc
          /\ sessionQueues' = nxt.queues
          /\ immediates' = immediates \o nxt.scheduled
    /\ execs' = execs \ {e}
    /\ reqs' = [reqs EXCEPT ![e.req].releases = @ + 1, ![e.req].outcome = outcome]
    /\ pending' = <<>> /\ approvedTools' = <<>>
    /\ UNCHANGED <<maxConcurrency, server, requests, responses, envVars>>

\* A finally block that releases the slot and does not look at the queues.
ReleaseWithoutDispatch(e, outcome) ==
    /\ activeControllers' = Restrict(activeControllers,
                                     DOMAIN activeControllers \ {e.key})
    /\ activeSessions' = activeSessions \ {e.key}
    /\ activeConcurrency' = activeConcurrency - 1
    /\ execs' = execs \ {e}
    /\ reqs' = [reqs EXCEPT ![e.req].releases = @ + 1, ![e.req].outcome = outcome]
    /\ UNCHANGED <<maxConcurrency, sessionQueues, immediates, gateVars, envVars>>

\* The finally block of processClaudeQuery: delete the controller and the
\* session, decrement the counter, then processNextInQueue. It runs in the
\* step that leaves the try or catch block (cleanupTempFiles awaits nothing
\* that another event can precede).
Release(e, outcome) ==
    /\ LET active == activeSessions \ {e.key}
           conc == activeConcurrency - 1
           nxt == processNextInQueue(sessionQueues, active, conc)
       IN /\ activeControllers' = Restrict(activeControllers,
                                           DOMAIN activeControllers \ {e.key})
          /\ activeSessions' = active
          /\ activeConcurrency' = conc
          /\ sessionQueues' = nxt.queues
          /\ immediates' = immediates \o nxt.scheduled
    /\ execs' = execs \ {e}
    /\ reqs' = [reqs EXCEPT ![e.req].releases = @ + 1, ![e.req].outcome = outcome]
    /\ UNCHANGED <<maxConcurrency, gateVars, envVars>>

\* The stream of an execution that was not aborted ends, the status is set
\* to "Task completed", finally runs.
TryCompletes(e) ==
    /\ e \in execs /\ e.phase = "try" /\ ~e.aborted
    /\ Release(e, "completed")

\* streamQuery, or a channel call inside the try block, throws an error that
\* is not an AbortError: control enters the error branch of the catch block,
\* which awaits its channel calls.
TryThrows(e) ==
    /\ e \in execs /\ e.phase = "try"
    /\ Advance(e, "catchError")

\* The AbortController of the invocation is aborted while it streams.
AbortSignal(e) ==
    /\ e \in execs /\ e.phase = "try" /\ ~e.aborted
    /\ execs' = (execs \ {e}) \cup {[e EXCEPT !.aborted = TRUE]}
    /\ UNCHANGED <<maxConcurrency, activeSessions, activeConcurrency, sessionQueues,
                   activeControllers, immediates, reqs, gateVars, envVars>>

\* "if (abortController.signal.aborted) break": the loop is left (as it is
\* when the aborted stream just ends) and the code after the loop runs,
\* which reports "Task completed"; finally runs.
TryBreaksOnAbort(e) ==
    /\ e \in execs /\ e.phase = "try" /\ e.aborted
    /\ Release(e, "completed")

\* The engine raises AbortError: the else branch of the catch block, which
\* awaits its channel calls.
TryThrowsAbortError(e) ==
    /\ e \in execs /\ e.phase = "try" /\ e.aborted
    /\ Advance(e, "catchAbort")

\* The catch block finishes; finally runs.
CatchReturns(e) ==
    /\ e \in execs /\ e.phase \in {"catchError", "catchAbort"}
    /\ Release(e, IF e.phase = "catchError" THEN "error" ELSE "cancelled")

\* The release placed at the end of the catch block instead of in finally:
\* an exception thrown inside the catch block skips it.
CatchThrowsLeaks(e) ==
    /\ e \in execs /\ e.phase \in {"catchError", "catchAbort"}
    /\ execs' = execs \ {e}
    /\ reqs' = [reqs EXCEPT ![e.req].outcome = "errorRethrown"]
    /\ UNCHANGED <<maxConcurrency, activeSessions, activeConcurrency, sessionQueues,
                   activeControllers, immediates, gateVars, envVars>>

\* A channel call of the catch block throws (the report of the error fails):
\* finally runs before the exception leaves processClaudeQuery.
CatchThrows(e) ==
    /\ e \in execs /\ e.phase \in {"catchError", "catchAbort"}
    /\ Release(e, IF e.phase = "catchError" THEN "errorRethrown"
                                             ELSE "cancelledRethrown")

AdmInit ==
    /\ maxConcurrency \in 1..MaxCap
    /\ activeSessions = {}
    /\ activeConcurrency = 0
    /\ sessionQueues = <<>>
    /\ activeControllers = <<>>
    /\ immediates = <<>>
    /\ execs = {}
    /\ reqs = <<>>

\* ------------------------------------------------------------ approval gate


\* s.split('/'): the segments between the separators, empty ones included.
RECURSIVE Split(_)
Split(s) ==
    IF s = <<>> THEN << <<>> >>
    ELSE LET rest == Split(Tail(s)) IN
         IF Head(s) = Sep THEN << <<>> >> \o rest
         ELSE << <<Head(s)>> \o Head(rest) >> \o Tail(rest)

\* The normalisation done by path.resolve on an absolute path: empty and
\* "." segments are dropped, ".." removes the segment before it and is
\* dropped at the root.
RECURSIVE Normalize(_, _)
Normalize(segs, out) ==
    IF segs = <<>> THEN out
    ELSE LET g == Head(segs) IN
         IF g = <<>> \/ g = <<".">> THEN Normalize(Tail(segs), out)
         ELSE IF g = <<".", ".">>
         THEN Normalize(Tail(segs),
                        IF out = <<>> THEN out ELSE SubSeq(out, 1, Len(out) - 1))
         ELSE Normalize(Tail(segs), Append(out, g))

\* The segments written as an absolute path; the root is "/".
RECURSIVE Join(_)
Join(segs) ==
    IF segs = <<>> THEN <<Sep>>
    ELSE IF Len(segs) = 1 THEN <<Sep>> \o segs[1]
    ELSE <<Sep>> \o Head(segs) \o Join(Tail(segs))

\* path.resolve(p, base): an absolute p is normalised, any other p is first
\* appended to base.
resolveFrom(base, p) ==
    LET full == IF p # <<>> /\ Head(p) = Sep THEN p ELSE base \o <<Sep>> \o p
    IN Join(Normalize(Split(full), <<>>))

\* path.resolve(p) with one argument: the base is process.cwd().
pathResolve(p) == resolveFrom(cwd, p)

\* String.prototype.startsWith.
startsWith(s, prefix) ==
    Len(prefix) <= Len(s) /\ SubSeq(s, 1, Len(prefix)) = prefix

\* extractToolTargetPath: input.file_path, else input.path, else undefined.
extractToolTargetPath(toolName, input) ==
    IF input.file_path # NoPath THEN input.file_path
    ELSE IF input.path # NoPath THEN input.path
    ELSE NoPath

\* isPathWithinDirectory.
isPathWithinDirectory(targetPath, directory) ==
    LET resolved == pathResolve(targetPath)
        dir == pathResolve(directory)
    IN resolved = dir \/ startsWith(resolved, dir \o <<Sep>>)

\* isAutoApproved that accepts a tool remembered for any directory.
isAutoApprovedAnyDirectory(approved, toolName, input, workingDirectory) ==
    /\ \E d \in DOMAIN approved : toolName \in approved[d]
    /\ LET targetPath == extractToolTargetPath(toolName, input) IN
       targetPath # NoPath => isPathWithinDirectory(targetPath, workingDirectory)

\* isAutoApproved, on the map approved (this.approvedTools): the tool was
\* remembered for the directory and the target path, if the input has one,
\* is within the directory.
isAutoApproved(approved, toolName, input, workingDirectory) ==
    /\ workingDirectory \in DOMAIN approved
    /\ toolName \in approved[workingDirectory]
    /\ LET targetPath == extractToolTargetPath(toolName, input) IN
       targetPath # NoPath => isPathWithinDirectory(targetPath, workingDirectory)

\* The auto-approval check at the head of handlePermissionRequest:
\* working_directory && isAutoApproved(tool_name, input, working_directory).
AutoApprovalCheck(approved, q) ==
    /\ q.workingDirectory # NoDir
    /\ isAutoApproved(approved, q.toolName, q.input, q.workingDirectory)

\* getApprovalSummary: one (directory, tools) entry per remembered directory
\* (their order, that of the map, is not kept here).
getApprovalSummary(approved) ==
    {[directory |-> d, tools |-> approved[d]] : d \in DOMAIN approved}

\* rememberApproval that stores a new set holding only this tool.
rememberApprovalReplacesSet(approved, toolName, workingDirectory) ==
    [d \in DOMAIN approved \cup {workingDirectory} |->
        IF d = workingDirectory THEN {toolName} ELSE approved[d]]

\* rememberApproval: add the tool to the directory's set, creating the set.
rememberApproval(approved, toolName, workingDirectory) ==
    [d \in DOMAIN approved \cup {workingDirectory} |->
        IF d = workingDirectory
        THEN (IF d \in DOMAIN approved THEN approved[d] ELSE {}) \cup {toolName}
        ELSE approved[d]]

Reply(status, approved, message) ==
    [status |-> status, behavior |-> IF approved THEN "allow" ELSE "deny",
     message |-> message]

\* respond that writes the decision and leaves the entry in the map.
respondKeepsEntry(pend, resps, approvalId, approved, message) ==
    IF approvalId \notin DOMAIN pend
    THEN [pending |-> pend, responses |-> resps]
    ELSE [pending |-> pend,
          responses |-> [resps EXCEPT ![approvalId] =
                            Append(@, Reply(200, approved, message))]]

\* respond: a no-op unless the id is pending; otherwise delete the entry and
\* write the decision to its held-open HTTP response.
respond(pend, resps, approvalId, approved, message) ==
    IF approvalId \notin DOMAIN pend
    THEN [pending |-> pend, responses |-> resps]
    ELSE [pending |-> Restrict(pend, DOMAIN pend \ {approvalId}),
          responses |-> [resps EXCEPT ![approvalId] =
                            Append(@, Reply(200, approved, message))]]

\* The input of a tool call: its file_path and path fields.
Input(file_path, path) == [file_path |-> file_path, path |-> path]
NoInput == Input(NoPath, NoPath)

\* A request body: text JSON.parse rejects, or the record it yields.
\* (JSON.parse also accepts the text null, which is no record.)
Malformed == [parses |-> FALSE, record |-> FALSE, toolName |-> "",
              input |-> NoInput, workingDirectory |-> NoDir]
NullBody == [parses |-> TRUE, record |-> FALSE, toolName |-> "",
             input |-> NoInput, workingDirectory |-> NoDir]
Body(toolName, input, workingDirectory) ==
    [parses |-> TRUE, record |-> TRUE, toolName |-> toolName, input |-> input,
     workingDirectory |-> workingDirectory]

\* The bodies sent to the gate: malformed text, null, a command without a
\* directory, and writes for the directory "/r" to "/r/s" and to "s".
RepoSub == Repo \o <<Sep, "s">>
RelSub == <<"s">>
Command == Body("Bash", NoInput, NoDir)
WriteAbsolute == Body("Write", Input(RepoSub, NoPath), Repo)
WriteRelative == Body("Write", Input(RelSub, NoPath), Repo)
Bodies == {Malformed, NullBody, Command, WriteAbsolute, WriteRelative}

\* The bodies the callers of one behaviour send: well-formed and malformed
\* ones; absolute and relative targets; records and other JSON values.
GateBodies == {Malformed, Command, WriteAbsolute}
PathBodies == {Malformed, WriteAbsolute, WriteRelative}
IntakeBodies == {Malformed, NullBody, Command}

\* handleRequest: a POST /permission-request connection is accepted and its
\* body starts to arrive.
accept(body, by) ==
    /\ server = "listening"
    /\ body \in limits.bodies
    /\ Len(requests) < limits.requests
    /\ requests' = Append(requests,
          [body |-> body, by |-> by, stage |-> "receiving", post |-> "none",
           timer |-> "unarmed", update |-> "none"])
    /\ responses' = Append(responses, <<>>)
    /\ UNCHANGED <<server, pending, approvedTools, admVars, envVars>>

\* A request from a caller that is no execution of this bot (by = 0).
handleRequest(body) == accept(body, 0)

\* The body the permission MCP server posts: tool_name, input and the Slack
\* context; it names no working_directory.
McpBody(toolName, input) == Body(toolName, input, NoDir)
JointBodies == {McpBody("Write", Input(RepoSub, NoPath))}

\* The permission MCP server spawned for execution e, which is streaming,
\* posts a request; the execution goes on waiting for its stream.
PermissionPrompt(e, body) ==
    /\ e \in execs /\ e.phase = "try"
    /\ accept(body, e.req)

\* What the permission_prompt tool returns to the agent.
RelayResult(behavior, message) == [behavior |-> behavior, message |-> message]
NoResult == RelayResult("none", "")

\* A permission_prompt call that lets the tool run when no bridge port is
\* configured.
CallToolAllowsWithoutPort(e, toolName, input, port) ==
    /\ e \in execs /\ e.phase = "try"
    /\ Len(calls) < RelayCalls
    /\ IF ~port
       THEN /\ calls' = Append(calls, [by |-> e.req, request |-> 0,
                   result |-> RelayResult("allow", "No permission bridge configured")])
            /\ UNCHANGED <<requests, responses>>
       ELSE IF server # "listening"
       THEN /\ calls' = Append(calls, [by |-> e.req, request |-> 0,
                   result |-> RelayResult("deny", "Error communicating with permission bridge")])
            /\ UNCHANGED <<requests, responses>>
       ELSE /\ calls' = Append(calls, [by |-> e.req, request |-> Len(requests) + 1,
                                       result |-> NoResult])
            /\ requests' = Append(requests,
                  [body |-> McpBody(toolName, input), by |-> e.req, stage |-> "receiving",
                   post |-> "none", timer |-> "unarmed", update |-> "none"])
            /\ responses' = Append(responses, <<>>)
    /\ UNCHANGED <<server, pending, approvedTools, admVars, cwd, limits, probe, configs, said>>

\* A permission_prompt call of the MCP server spawned for execution e, up to
\* its await of fetch. port tells whether PERMISSION_BRIDGE_PORT is set in
\* that process. Without a port the call returns deny at once; when nothing
\* listens on the port fetch rejects and the catch block returns deny;
\* otherwise the body (no working_directory) is on its way to the bridge.
CallTool(e, toolName, input, port) ==
    /\ e \in execs /\ e.phase = "try"
    /\ Len(calls) < RelayCalls
    /\ IF ~port
       THEN /\ calls' = Append(calls, [by |-> e.req, request |-> 0,
                   result |-> RelayResult("deny", "No permission bridge configured")])
            /\ UNCHANGED <<requests, responses>>
       ELSE IF server # "listening"
       THEN /\ calls' = Append(calls, [by |-> e.req, request |-> 0,
                   result |-> RelayResult("deny", "Error communicating with permission bridge")])
            /\ UNCHANGED <<requests, responses>>
       ELSE /\ calls' = Append(calls, [by |-> e.req, request |-> Len(requests) + 1,
                                       result |-> NoResult])
            /\ requests' = Append(requests,
                  [body |-> McpBody(toolName, input), by |-> e.req, stage |-> "receiving",
                   post |-> "none", timer |-> "unarmed", update |-> "none"])
            /\ responses' = Append(responses, <<>>)
    /\ UNCHANGED <<server, pending, approvedTools, admVars, cwd, limits, probe, configs, said>>

\* fetch, or response.json(), rejects while the call waits (the connection
\* breaks): the catch block returns deny.
FetchFails(c) ==
    /\ c \in 1..Len(calls) /\ calls[c].result = NoResult
    /\ calls' = [calls EXCEPT ![c].result =
                    RelayResult("deny", "Error communicating with permission bridge")]
    /\ UNCHANGED <<admVars, gateVars, cwd, limits, probe, configs, said>>

\* fetch resolves with what the bridge wrote; the parsed body is returned
\* as it is, whatever the status.
FetchReturns(c) ==
    /\ c \in 1..Len(calls) /\ calls[c].result = NoResult
    /\ responses[calls[c].request] # <<>>
    /\ LET answer == responses[calls[c].request][1] IN
       calls' = [calls EXCEPT ![c].result = RelayResult(answer.behavior, answer.message)]
    /\ UNCHANGED <<admVars, gateVars, cwd, limits, probe, configs, said>>

\* The 'end' event of a body that JSON.parse rejects: 400, nothing created.
RequestEndInvalid(i) ==
    /\ i \in 1..Len(requests)
    /\ requests[i].stage = "receiving" /\ ~requests[i].body.parses
    /\ requests' = [requests EXCEPT ![i].stage = "invalid"]
    /\ responses' = [responses EXCEPT ![i] = Append(@, Reply(400, FALSE, "Invalid request"))]
    /\ UNCHANGED <<server, pending, approvedTools, admVars, envVars>>

\* The 'end' event of a body that parses to null: the destructuring at the
\* head of handlePermissionRequest throws inside the async call, which the
\* try block of handleRequest does not await; nothing is written.
RequestEndThrows(i) ==
    /\ i \in 1..Len(requests)
    /\ requests[i].stage = "receiving"
    /\ requests[i].body.parses /\ ~requests[i].body.record
    /\ requests' = [requests EXCEPT ![i].stage = "rejected"]
    /\ UNCHANGED <<server, pending, responses, approvedTools, admVars, envVars>>

\* handlePermissionRequest up to its await of chat.postMessage: answer from
\* the remembered approvals, or create the pending entry (the approval id is
\* the request's index: ids are taken to be unique) and start the post.
handlePermissionRequest(i) ==
    /\ i \in 1..Len(requests)
    /\ requests[i].stage = "receiving"
    /\ requests[i].body.parses /\ requests[i].body.record
    /\ LET q == requests[i].body IN
       IF AutoApprovalCheck(approvedTools, q)
       THEN /\ requests' = [requests EXCEPT ![i].stage = "auto"]
            /\ responses' = [responses EXCEPT ![i] = Append(@,
                  Reply(200, TRUE, "Auto-approved (previously approved for this directory)"))]
            /\ UNCHANGED pending
       ELSE /\ requests' = [requests EXCEPT ![i].stage = "prompted", ![i].post = "inflight"]
            /\ pending' = [j \in DOMAIN pending \cup {i} |->
                  IF j = i THEN [toolName |-> q.toolName,
                                 workingDirectory |-> q.workingDirectory,
                                 messageTs |-> FALSE]
                  ELSE pending[j]]
            /\ UNCHANGED responses
    /\ UNCHANGED <<server, approvedTools, admVars, envVars>>

\* chat.postMessage resolves: note the message handle if the entry is still
\* pending, then arm the 5-minute timer.
PostSucceeds(i) ==
    /\ i \in 1..Len(requests) /\ requests[i].post = "inflight"
    /\ requests' = [requests EXCEPT ![i].post = "ok", ![i].timer = "armed"]
    /\ pending' = IF i \in DOMAIN pending
                  THEN [pending EXCEPT ![i].messageTs = TRUE] ELSE pending
    /\ UNCHANGED <<server, responses, approvedTools, admVars, envVars>>

\* A catch block that only logs the rejection of chat.postMessage.
PostFailsSilently(i) ==
    /\ i \in 1..Len(requests) /\ requests[i].post = "inflight"
    /\ requests' = [requests EXCEPT ![i].post = "failed", ![i].timer = "armed"]
    /\ UNCHANGED <<server, pending, responses, approvedTools, admVars, envVars>>

\* chat.postMessage rejects: deny through respond, then arm the timer.
PostFails(i) ==
    /\ i \in 1..Len(requests) /\ requests[i].post = "inflight"
    /\ requests' = [requests EXCEPT ![i].post = "failed", ![i].timer = "armed"]
    /\ LET out == respond(pending, responses, i, FALSE, "Failed to send Slack message")
       IN pending' = out.pending /\ responses' = out.responses
    /\ UNCHANGED <<server, approvedTools, admVars, envVars>>

\* A setTimeout callback that answers without looking at the pending map and
\* with the wrong decision.
TimerFiresAllows(i) ==
    /\ i \in 1..Len(requests) /\ requests[i].timer = "armed"
    /\ requests' = [requests EXCEPT ![i].timer = "fired"]
    /\ LET out == respond(pending, responses, i, TRUE, "Permission request timed out")
       IN pending' = out.pending /\ responses' = out.responses
    /\ UNCHANGED <<server, approvedTools, admVars, envVars>>

\* The setTimeout callback: deny if the id is still pending.
TimerFires(i) ==
    /\ i \in 1..Len(requests) /\ requests[i].timer = "armed"
    /\ requests' = [requests EXCEPT ![i].timer = "fired"]
    /\ LET out == IF i \in DOMAIN pending
                  THEN respond(pending, responses, i, FALSE, "Permission request timed out")
                  ELSE [pending |-> pending, responses |-> responses]
       IN pending' = out.pending /\ responses' = out.responses
    /\ UNCHANGED <<server, approvedTools, admVars, envVars>>

\* resolveApproval, called by the approve_tool / deny_tool action handlers
\* with the approval id carried by the button. The button exists once the
\* post has reached the channel, which can precede the post's return (or
\* its failure, when only the reply of the channel is lost).
Clickable(i) ==
    /\ i \in 1..Len(requests)
    /\ requests[i].post \in {"inflight", "ok", "failed"}

\* The chat.update call of resolveApproval: made, and not awaited, when the
\* entry is pending and its message handle is known.
startUpdate(i) ==
    IF i \in DOMAIN pending /\ pending[i].messageTs
    THEN [requests EXCEPT ![i].update = "inflight"]
    ELSE requests

\* resolveApproval that remembers the approval before it looks the id up.
resolveApprovalRemembersFirst(i, approved) ==
    /\ Clickable(i)
    /\ LET q == requests[i].body IN
       approvedTools' = IF approved /\ q.workingDirectory # NoDir
                        THEN rememberApproval(approvedTools, q.toolName, q.workingDirectory)
                        ELSE approvedTools
    /\ LET out == respond(pending, responses, i, approved,
                          IF approved THEN "Approved by user" ELSE "Denied by user")
       IN pending' = out.pending /\ responses' = out.responses
    /\ requests' = startUpdate(i)
    /\ UNCHANGED <<server, admVars, envVars>>

\* resolveApproval that remembers the tool whatever was clicked.
resolveApprovalRemembersDenial(i, approved) ==
    /\ Clickable(i)
    /\ IF i \notin DOMAIN pending
       THEN UNCHANGED <<pending, responses, approvedTools>>
       ELSE /\ approvedTools' =
                 IF pending[i].workingDirectory # NoDir
                 THEN rememberApproval(approvedTools, pending[i].toolName,
                                       pending[i].workingDirectory)
                 ELSE approvedTools
            /\ LET out == respond(pending, responses, i, approved,
                                  IF approved THEN "Approved by user" ELSE "Denied by user")
               IN pending' = out.pending /\ responses' = out.responses
    /\ requests' = startUpdate(i)
    /\ UNCHANGED <<server, admVars, envVars>>

\* resolveApproval that awaits chat.update and responds after it resolved.
resolveApprovalAwaitsUpdate(i, approved) ==
    /\ Clickable(i)
    /\ IF i \notin DOMAIN pending
       THEN UNCHANGED <<pending, responses, approvedTools>>
       ELSE /\ approvedTools' =
                 IF approved /\ pending[i].workingDirectory # NoDir
                 THEN rememberApproval(approvedTools, pending[i].toolName,
                                       pending[i].workingDirectory)
                 ELSE approvedTools
            /\ IF pending[i].messageTs
               THEN UNCHANGED <<pending, responses>>
               ELSE LET out == respond(pending, responses, i, approved,
                                  IF approved THEN "Approved by user" ELSE "Denied by user")
                    IN pending' = out.pending /\ responses' = out.responses
    /\ requests' = startUpdate(i)
    /\ UNCHANGED <<server, admVars, envVars>>

\* resolveApproval: return if the id is not pending; otherwise remember an
\* approval that carried a directory, start the (unawaited) message update
\* and respond.
resolveApproval(i, approved) ==
    /\ Clickable(i)
    /\ IF i \notin DOMAIN pending
       THEN UNCHANGED <<pending, responses, approvedTools>>
       ELSE /\ approvedTools' =
                 IF approved /\ pending[i].workingDirectory # NoDir
                 THEN rememberApproval(approvedTools, pending[i].toolName,
                                       pending[i].workingDirectory)
                 ELSE approvedTools
            /\ LET out == respond(pending, responses, i, approved,
                                  IF approved THEN "Approved by user" ELSE "Denied by user")
               IN pending' = out.pending /\ responses' = out.responses
    /\ requests' = startUpdate(i)
    /\ UNCHANGED <<server, admVars, envVars>>

\* The promise of chat.update rejects: its catch handler logs a warning.
\* (When it resolves nothing runs: no handler is attached for that.)
UpdateFails(i) ==
    /\ i \in 1..Len(requests) /\ requests[i].update = "inflight"
    /\ requests' = [requests EXCEPT ![i].update = "failed"]
    /\ UNCHANGED <<server, pending, responses, approvedTools, admVars, envVars>>

\* clearApprovals.
clearApprovals ==
    /\ approvedTools' = <<>>
    /\ UNCHANGED <<server, requests, pending, responses, admVars, envVars>>

\* The drain loop of stop: respond(id, false, 'Server shutting down') for
\* each pending id.
RECURSIVE Drain(_, _, _)
Drain(pend, resps, ids) ==
    IF ids = {} THEN [pending |-> pend, responses |-> resps]
    ELSE LET id == CHOOSE x \in ids : TRUE
             out == respond(pend, resps, id, FALSE, "Server shutting down")
         IN Drain(out.pending, out.responses, ids \ {id})

\* stop whose drain loop answers with the message of the deadline.
stopReportsTimeout ==
    /\ server = "listening"
    /\ pending' = <<>>
    /\ responses' = [i \in DOMAIN responses |->
          IF i \in DOMAIN pending
          THEN Append(responses[i], Reply(200, FALSE, "Permission request timed out"))
          ELSE responses[i]]
    /\ server' = "closing"
    /\ UNCHANGED <<requests, approvedTools, admVars, envVars>>

\* stop up to its await: drain, then server.close(), after which no new
\* connection is accepted.
stop ==
    /\ server = "listening"
    /\ LET out == Drain(pending, responses, DOMAIN pending)
       IN pending' = out.pending /\ responses' = out.responses
    /\ server' = "closing"
    /\ UNCHANGED <<requests, approvedTools, admVars, envVars>>

\* The callback of server.close, which resolves the promise stop returned.
\* It runs once every connection has ended: by its answer, or because its
\* caller (a child process that ends with its execution) has gone, which no
\* handler of the bot observes; so an unanswered request does not delay it.
StopReturns ==
    /\ server = "closing"
    /\ server' = "closed"
    /\ UNCHANGED <<requests, pending, responses, approvedTools, admVars, envVars>>

GateInit ==
    /\ server = "listening"
    /\ requests = <<>>
    /\ pending = <<>>
    /\ responses = <<>>
    /\ approvedTools = <<>>

\* ------------------------------------------------------------ specifications

\* The directory the bot was started in.
BridgeCwd == <<"/", "b">>

\* The channel has a default working directory, the thread no override;
\* no message was answered yet.
DirInit ==
    /\ configs = (ChannelKey :> Repo)
    /\ said = <<>>

EnvInit ==
    /\ cwd = BridgeCwd /\ DirInit /\ calls = <<>>
    /\ limits = [reqs |-> MaxReqs, requests |-> MaxRequests, bodies |-> GateBodies]
    /\ probe = <<>>

Init == AdmInit /\ GateInit /\ EnvInit

NextAdm ==
    \/ \E k \in Keys : handleMessage(k)
    \/ DeferredStart
    \/ \E e \in execs : TryCompletes(e)
    \/ \E e \in execs : TryThrows(e)
    \/ \E e \in execs : AbortSignal(e)
    \/ \E e \in execs : TryBreaksOnAbort(e)
    \/ \E e \in execs : TryThrowsAbortError(e)
    \/ \E e \in execs : CatchReturns(e)
    \/ \E e \in execs : CatchThrows(e)

NextGate ==
    \/ \E body \in Bodies : handleRequest(body)
    \/ \E i \in 1..MaxRequests : RequestEndInvalid(i)
    \/ \E i \in 1..MaxRequests : handlePermissionRequest(i)
    \/ \E i \in 1..MaxRequests : PostSucceeds(i)
    \/ \E i \in 1..MaxRequests : PostFails(i)
    \/ \E i \in 1..MaxRequests : TimerFires(i)
    \/ \E i \in 1..MaxRequests, a \in BOOLEAN : resolveApproval(i, a)
    \/ \E i \in 1..MaxRequests : UpdateFails(i)
    \/ clearApprovals
    \/ stop
    \/ StopReturns

\* The admission controller.
Spec == Init /\ [][NextAdm]_vars

\* The admission controller when every execution ends normally (each end
\* runs the same finally block), with more messages.
DispatchInit ==
    /\ AdmInit /\ GateInit
    /\ cwd = BridgeCwd /\ probe = <<>> /\ DirInit /\ calls = <<>>
    /\ limits = [reqs |-> DispatchReqs, requests |-> MaxRequests, bodies |-> GateBodies]

NextDispatch ==
    \/ \E k \in Keys : handleMessage(k)
    \/ DeferredStart
    \/ \E e \in execs : TryCompletes(e)

DispatchSpec == DispatchInit /\ [][NextDispatch]_vars

\* The admission controller under messages that never stop arriving, none of
\* them between a dequeue and its deferred start: every execution ends,
\* every setImmediate callback runs.
StarveInit ==
    /\ AdmInit /\ GateInit /\ maxConcurrency = 1
    /\ cwd = BridgeCwd /\ probe = <<>> /\ DirInit /\ calls = <<>>
    /\ limits = [reqs |-> StarveReqs, requests |-> MaxRequests, bodies |-> GateBodies]

\* A message that reaches the concurrency check while no setImmediate
\* callback is outstanding.
Arrives(k) == immediates = <<>> /\ handleMessage(k)
ArrivesOver(k, r) == immediates = <<>> /\ handleMessageOver(k, r)

NextStarve ==
    \/ \E k \in Keys : Arrives(k)
    \/ \E k \in Keys, r \in 1..StarveReqs : ArrivesOver(k, r)
    \/ DeferredStart
    \/ \E e \in execs : TryCompletes(e)

StarveSpec == StarveInit /\ [][NextStarve]_vars

FairStarveSpec ==
    /\ StarveSpec
    /\ WF_vars(DeferredStart)
    /\ \A r \in 1..StarveReqs :
          WF_vars(\E e \in execs : e.req = r /\ TryCompletes(e))

\* The admission controller with the commands of the working-directory
\* manager: the directory of the thread and of the channel is set, changed
\* and removed while requests run and wait.
CommandDirs == {Repo, Repo2}

\* The user who sends the commands: one of the two of the thread.
CommandUsers == {"A"}

DirectoryInit ==
    /\ AdmInit /\ GateInit /\ maxConcurrency = 1
    /\ cwd = BridgeCwd /\ probe = <<>> /\ DirInit /\ calls = <<>>
    /\ limits = [reqs |-> DirectoryReqs, requests |-> MaxRequests, bodies |-> GateBodies]

NextDirectory ==
    \/ \E k \in Keys : handleMessage(k)
    \/ \E k \in Keys : handleMessageNoDirectory(k)
    \/ DeferredStart
    \/ \E e \in execs : TryCompletes(e)
    \/ \E k \in CommandUsers, threaded \in BOOLEAN, d \in CommandDirs, found \in BOOLEAN :
          handleSetCommand(k, threaded, d, found)
    \/ \E k \in CommandUsers, threaded \in BOOLEAN : handleGetCommand(k, threaded)
    \/ \E k \in CommandUsers, threaded \in BOOLEAN : handleResetCommand(k, threaded)
    \/ \E k \in CommandUsers : handleMcpInfoCommand(k)
    \/ \E k \in CommandUsers, reloaded \in BOOLEAN : handleMcpReloadCommand(k, reloaded)
    \/ \E k \in CommandUsers, subCommand \in DebugCommands : handleDebugCommand(k, subCommand)

DirectorySpec == DirectoryInit /\ [][NextDirectory]_vars

\* One execution whose permission MCP server relays the engine's requests
\* to the gate, with and without a bridge port, while the gate answers,
\* times out and shuts down.
RelayInit ==
    /\ AdmInit /\ GateInit /\ maxConcurrency = 1
    /\ cwd = BridgeCwd /\ probe = <<>> /\ DirInit /\ calls = <<>>
    /\ limits = [reqs |-> RelayReqs, requests |-> RelayCalls, bodies |-> JointBodies]

NextRelay ==
    \/ \E k \in Keys : handleMessage(k)
    \/ \E e \in execs : TryCompletes(e)
    \/ \E e \in execs, port \in BOOLEAN :
          CallTool(e, "Write", Input(RepoSub, NoPath), port)
    \/ \E c \in 1..RelayCalls : FetchFails(c)
    \/ \E c \in 1..RelayCalls : FetchReturns(c)
    \/ \E i \in 1..RelayCalls : handlePermissionRequest(i)
    \/ \E i \in 1..RelayCalls : PostSucceeds(i)
    \/ \E i \in 1..RelayCalls : PostFails(i)
    \/ \E i \in 1..RelayCalls : TimerFires(i)
    \/ \E i \in 1..RelayCalls, a \in BOOLEAN : resolveApproval(i, a)
    \/ \E i \in 1..RelayCalls : UpdateFails(i)
    \/ stop
    \/ StopReturns

RelaySpec == RelayInit /\ [][NextRelay]_vars

\* The approval gate; the admission controller is idle, its cap fixed.
GateSpecInit == Init /\ maxConcurrency = 1

GateSpec == GateSpecInit /\ [][NextGate]_vars

\* The gate when its callers send absolute and relative target paths.
PathGateInit ==
    /\ AdmInit /\ GateInit /\ maxConcurrency = 1
    /\ cwd = BridgeCwd /\ probe = <<>> /\ DirInit /\ calls = <<>>
    /\ limits = [reqs |-> MaxReqs, requests |-> MaxRequests, bodies |-> PathBodies]

PathGateSpec == PathGateInit /\ [][NextGate]_vars

\* The gate when its callers also send JSON that is no record.
IntakeInit ==
    /\ AdmInit /\ GateInit /\ maxConcurrency = 1
    /\ cwd = BridgeCwd /\ probe = <<>> /\ DirInit /\ calls = <<>>
    /\ limits = [reqs |-> MaxReqs, requests |-> MaxRequests, bodies |-> IntakeBodies]

NextIntake ==
    \/ NextGate
    \/ \E i \in 1..MaxRequests : RequestEndThrows(i)

IntakeSpec == IntakeInit /\ [][NextIntake]_vars

\* Executions whose engine asks the gate for permission. The remembered
\* approvals may hold an entry made for another caller.
JointInit ==
    /\ AdmInit /\ maxConcurrency = 1
    /\ server = "listening" /\ requests = <<>> /\ pending = <<>>
    /\ responses = <<>>
    /\ approvedTools \in {<<>>, (Repo :> {"Write"})}
    /\ cwd = BridgeCwd /\ probe = <<>> /\ DirInit /\ calls = <<>>
    /\ limits = [reqs |-> JointReqs, requests |-> JointRequests, bodies |-> JointBodies]

NextJoint ==
    \/ \E k \in Keys : handleMessage(k)
    \/ DeferredStart
    \/ \E e \in execs : TryCompletes(e)
    \/ \E e \in execs : TryThrows(e)
    \/ \E e \in execs : AbortSignal(e)
    \/ \E e \in execs : TryBreaksOnAbort(e)
    \/ \E e \in execs : TryThrowsAbortError(e)
    \/ \E e \in execs : CatchReturns(e)
    \/ \E e \in execs : CatchThrows(e)
    \/ \E e \in execs, body \in JointBodies : PermissionPrompt(e, body)
    \/ \E i \in 1..JointRequests : handlePermissionRequest(i)
    \/ \E i \in 1..JointRequests : PostSucceeds(i)
    \/ \E i \in 1..JointRequests : PostFails(i)
    \/ \E i \in 1..JointRequests : TimerFires(i)
    \/ \E i \in 1..JointRequests, a \in BOOLEAN : resolveApproval(i, a)
    \/ \E i \in 1..JointRequests : UpdateFails(i)
    \/ clearApprovals
    \/ stop
    \/ StopReturns

JointSpec == JointInit /\ [][NextJoint]_vars

\* The gate when approvals for several tools and directories were remembered
\* before: requests for each tool in each directory.
MemoryBodies ==
    {Malformed} \cup {Body(t, NoInput, d) : t \in {"Write", "Edit"}, d \in {Repo, Repo2}}

MemoryInit ==
    /\ AdmInit /\ maxConcurrency = 1
    /\ server = "listening" /\ requests = <<>> /\ pending = <<>>
    /\ responses = <<>>
    /\ approvedTools \in
          UNION {[D -> (SUBSET {"Write", "Edit"}) \ {{}}] : D \in SUBSET {Repo, Repo2}}
    /\ cwd = BridgeCwd /\ probe = <<>> /\ DirInit /\ calls = <<>>
    /\ limits = [reqs |-> MaxReqs, requests |-> MemoryRequests, bodies |-> MemoryBodies]

NextMemory ==
    \/ \E body \in MemoryBodies : handleRequest(body)
    \/ \E i \in 1..MaxRequests : RequestEndInvalid(i)
    \/ \E i \in 1..MaxRequests : handlePermissionRequest(i)
    \/ \E i \in 1..MaxRequests : PostSucceeds(i)
    \/ \E i \in 1..MaxRequests : PostFails(i)
    \/ \E i \in 1..MaxRequests : TimerFires(i)
    \/ \E i \in 1..MaxRequests, a \in BOOLEAN : resolveApproval(i, a)
    \/ \E i \in 1..MaxRequests : UpdateFails(i)
    \/ clearApprovals
    \/ stop
    \/ StopReturns

MemorySpec == MemoryInit /\ [][NextMemory]_vars

\* Two conversations side by side, each execution asking the gate for
\* permission: the cap leaves room for both.
ConcurrentInit ==
    /\ AdmInit /\ maxConcurrency = MaxCap
    /\ GateInit
    /\ cwd = BridgeCwd /\ probe = <<>> /\ DirInit /\ calls = <<>>
    /\ limits = [reqs |-> JointReqs, requests |-> MaxRequests, bodies |-> JointBodies]

NextConcurrent ==
    \/ \E k \in Keys : handleMessage(k)
    \/ DeferredStart
    \/ \E e \in execs : TryCompletes(e)
    \/ \E e \in execs : TryThrows(e)
    \/ \E e \in execs : AbortSignal(e)
    \/ \E e \in execs : TryBreaksOnAbort(e)
    \/ \E e \in execs : TryThrowsAbortError(e)
    \/ \E e \in execs : CatchReturns(e)
    \/ \E e \in execs : CatchThrows(e)
    \/ \E e \in execs, body \in JointBodies : PermissionPrompt(e, body)
    \/ \E i \in 1..MaxRequests : handlePermissionRequest(i)
    \/ \E i \in 1..MaxRequests : PostSucceeds(i)
    \/ \E i \in 1..MaxRequests : PostFails(i)
    \/ \E i \in 1..MaxRequests : TimerFires(i)
    \/ \E i \in 1..MaxRequests, a \in BOOLEAN : resolveApproval(i, a)
    \/ \E i \in 1..MaxRequests : UpdateFails(i)

ConcurrentSpec == ConcurrentInit /\ [][NextConcurrent]_vars

\* The approval gate with the scheduling Node guarantees: an armed timer
\* fires, and the 'end' event of a received request is delivered.
FairGateSpec ==
    /\ GateSpec
    /\ \A i \in 1..MaxRequests :
          /\ WF_vars(TimerFires(i))
          /\ WF_vars(handlePermissionRequest(i))
          /\ WF_vars(RequestEndInvalid(i))

\* The same, with the post of the prompt assumed to settle as well.
PostFairGateSpec ==
    /\ FairGateSpec
    /\ \A i \in 1..MaxRequests : WF_vars(PostSucceeds(i) \/ PostFails(i))

\* ------------------------------------------- the auto-approval check alone

\* Tools and directories the check is given.
ProbeTools == {"Write", "Edit"}
ProbeDirs == {Repo, Repo2, NoDir}

\* The maps approvedTools can hold over these: each directory is absent or
\* has a non-empty set of tools.
Memories ==
    UNION {[D -> (SUBSET ProbeTools) \ {{}}] : D \in SUBSET {Repo, Repo2}}

\* Directories the bot may have been started in: outside the working
\* directories, and below one of them.
Cwds == {BridgeCwd, Repo \o <<Sep, "b">>}

\* Target paths: absolute and relative, with "." and ".." segments.
ProbePaths ==
    {NoPath,
     Repo,                                          \* /r
     RepoSub,                                       \* /r/s
     Repo \o <<Sep, ".", Sep, "s">>,                \* /r/./s
     Repo \o <<Sep, ".", ".", Sep, "e">>,           \* /r/../e
     Repo \o <<Sep, "s", Sep, ".", ".", Sep, ".", ".", Sep, "e">>,  \* /r/s/../../e
     Repo2 \o <<Sep, "s">>,                         \* /r2/s
     Repo2 \o <<Sep, ".", ".", Sep, "r", Sep, "s">>, \* /r2/../r/s
     <<Sep, "e">>,                                  \* /e
     RelSub,                                        \* s
     <<".", ".", Sep, "e">>,                        \* ../e
     <<".", ".", Sep, "r", Sep, "s">>}              \* ../r/s

ProbeInputs == {Input(f, NoPath) : f \in ProbePaths}
                  \cup {Input(NoPath, RepoSub), Input(<<Sep, "e">>, RepoSub)}

\* One call of the check of handlePermissionRequest on the current map.
Decide(toolName, input, workingDirectory) ==
    /\ probe' = <<[toolName |-> toolName, input |-> input,
                   workingDirectory |-> workingDirectory,
                   allowed |-> AutoApprovalCheck(approvedTools,
                                  Body(toolName, input, workingDirectory))]>>
    /\ UNCHANGED <<admVars, gateVars, cwd, limits, configs, said, calls>>

DecisionInit ==
    /\ AdmInit /\ maxConcurrency = 1
    /\ server = "listening" /\ requests = <<>> /\ pending = <<>>
    /\ responses = <<>>
    /\ approvedTools \in Memories
    /\ cwd \in Cwds
    /\ limits = [reqs |-> 0, requests |-> 0, bodies |-> {}]
    /\ probe = <<>> /\ DirInit /\ calls = <<>>

NextDecision ==
    \E t \in ProbeTools, x \in ProbeInputs, d \in ProbeDirs : Decide(t, x, d)

\* The check applied to every input, on every map and start directory.
DecisionSpec == DecisionInit /\ [][NextDecision]_vars

\* ------------------------------------------------- claims: admission control

QueueOf(queues, k) ==
    IF QueueIndex(queues, k) = 0 THEN <<>> ELSE queues[QueueIndex(queues, k)].queue

Running(r) == \E e \in execs : e.req = r
Done(r) == reqs[r].releases > 0
Started(r) == Running(r) \/ Done(r)

\* C1: for every session key, at most one invocation of processClaudeQuery
\* for that key is in progress in any reachable state.
C1_OneExecutionPerKey ==
    \A k \in Keys : Cardinality({e \in execs : e.key = k}) <= 1

\* C2: the number of executions in progress, and the counter
\* activeConcurrency, never exceed maxConcurrency.
C2_ConcurrencyCap ==
    /\ activeConcurrency <= maxConcurrency
    /\ Cardinality(execs) <= maxConcurrency

\* C3: a request for a key has not started unless every request submitted
\* earlier for the same key has completed.
C3_FifoPerKey ==
    \A r1, r2 \in 1..Len(reqs) :
        (r1 < r2 /\ reqs[r1].key = reqs[r2].key /\ Started(r2)) => Done(r1)

\* A step that submitted a request: handleMessage reached its check.
Submitted == Len(reqs') = Len(reqs) + 1

\* C4: submit decides in order: key active -> appended to the tail of the
\* key's queue; else no capacity -> appended to the tail of the key's queue;
\* else the key becomes active, the counter grows by one and the execution
\* starts in the same step. A queued request gets the 'Queued' notification
\* and is in the queue.
C4_SubmitDecision ==
    [][Submitted =>
        LET r == Len(reqs')
            k == reqs'[r].key
            queued == /\ QueueOf(sessionQueues', k) = Append(QueueOf(sessionQueues, k), r)
                      /\ \A j \in Keys \ {k} :
                            QueueOf(sessionQueues', j) = QueueOf(sessionQueues, j)
                      /\ UNCHANGED <<activeSessions, activeConcurrency, execs, immediates>>
        IN IF k \in activeSessions
           THEN queued /\ reqs'[r].notified = "QueuedSession"
           ELSE IF activeConcurrency >= maxConcurrency
           THEN queued /\ reqs'[r].notified = "QueuedBusy"
           ELSE /\ activeSessions' = activeSessions \cup {k}
                /\ activeConcurrency' = activeConcurrency + 1
                /\ execs' = execs \cup {[req |-> r, key |-> k, phase |-> "try",
                                         aborted |-> FALSE,
                                         dir |-> getWorkingDirectory(configs, TRUE)]}
                /\ reqs'[r].notified = "none"
                /\ UNCHANGED <<sessionQueues, immediates>>
    ]_vars

\* A request was queued behind its own active session, and another behind a
\* full server while its own session was idle.
C4_Witness ==
    \E r1, r2 \in 1..Len(reqs) :
        /\ reqs[r1].notified = "QueuedSession"
        /\ reqs[r2].notified = "QueuedBusy"
        /\ Len(QueueOf(sessionQueues, reqs[r1].key)) > 0
        /\ Running(1)

\* The keys that have a queued request and are not active.
Dispatchable(queues, active) ==
    {k \in Keys : Len(QueueOf(queues, k)) > 0 /\ k \notin active}

\* A step in which the execution of request r ran its finally block.
Released(r) == reqs'[r].releases = reqs[r].releases + 1

\* C5: a release removes its key from activeSessions, decrements the counter
\* by exactly one and schedules at most one queued request, the head of the
\* queue of a key that is not active; it schedules none when the counter has
\* reached maxConcurrency or no such key exists.
C5_ReleaseDispatchesAtMostOne ==
    [][\A r \in 1..Len(reqs) : Released(r) =>
        LET k == reqs[r].key
            free == Dispatchable(sessionQueues, activeSessions')
        IN /\ k \notin activeSessions'
           /\ activeSessions' = activeSessions \ {k}
           /\ activeConcurrency' = activeConcurrency - 1
           /\ IF activeConcurrency' >= maxConcurrency \/ free = {}
              THEN UNCHANGED <<sessionQueues, immediates>>
              ELSE \E j \in free :
                     /\ immediates' = Append(immediates,
                            [key |-> j, req |-> Head(QueueOf(sessionQueues, j))])
                     /\ QueueOf(sessionQueues', j) = Tail(QueueOf(sessionQueues, j))
                     /\ \A i \in Keys \ {j} :
                            QueueOf(sessionQueues', i) = QueueOf(sessionQueues, i)
    ]_vars

\* A release left two keys with queued requests and dispatched one of them.
C5_Witness ==
    /\ Len(immediates) = 1
    /\ \E k \in Keys : k # immediates[1].key /\ Len(QueueOf(sessionQueues, k)) > 0
                       /\ k \notin activeSessions
    /\ \E r \in 1..Len(reqs) : Done(r)

\* C6: an execution that leaves processClaudeQuery, by any path, runs the
\* release exactly once in that step (its key leaves activeSessions, the
\* counter drops by one); a released request never runs again, and once no
\* execution and no deferred start is left no slot is held.
C6_ReleasedExactlyOnce ==
    [][/\ \A e \in execs : e.req \notin {x.req : x \in execs'} =>
            /\ reqs[e.req].releases = 0 /\ reqs'[e.req].releases = 1
            /\ e.key \notin activeSessions'
            /\ activeConcurrency' = activeConcurrency - 1
       /\ \A r \in 1..Len(reqs') :
            /\ reqs'[r].releases <= 1
            /\ (reqs'[r].outcome # "none") = (reqs'[r].releases = 1)
            /\ reqs'[r].releases = 1 => r \notin {x.req : x \in execs'}
       /\ (execs' = {} /\ immediates' = <<>>) =>
            (activeSessions' = {} /\ activeConcurrency' = 0)
    ]_vars

\* Executions have ended by each path: normal completion, an engine failure
\* that was reported, a failure while reporting it, and cancellation.
C6_Witness ==
    /\ execs = {} /\ immediates = <<>> /\ Len(reqs) = MaxReqs
    /\ \E r \in 1..Len(reqs) : reqs[r].outcome = "errorRethrown"
    /\ \E r \in 1..Len(reqs) : reqs[r].outcome \in {"cancelled", "cancelledRethrown"}
    /\ \E r \in 1..Len(reqs) : reqs[r].outcome \in {"completed", "error"}

\* C7: the size of activeSessions equals activeConcurrency, and the counter
\* is never negative.
C7_SetSizeEqualsCounter ==
    /\ Cardinality(activeSessions) = activeConcurrency
    /\ activeConcurrency >= 0

\* ---------------------------------------------------- claims: approval gate

TimedOut == Reply(200, FALSE, "Permission request timed out")

\* A step in which the armed timer of request i fired.
TimerFired(i) ==
    /\ i \in 1..Len(requests)
    /\ requests[i].timer = "armed" /\ requests'[i].timer = "fired"

\* A step that consumed the pending entry i.
Consumed(i) == i \in DOMAIN pending /\ i \notin DOMAIN pending'

\* C8: an approval id resolves at most once: no request is answered twice,
\* an answer is only written by the step that consumes the pending entry (or
\* by the intake of a request that creates none), a consumed id is never
\* pending again, and a resolution attempt on an id already consumed (a
\* second click, a click after the timeout, the timer after a click) sends
\* no response and changes neither the pending map nor the remembered
\* approvals.
C8_ResolvesAtMostOnce ==
    [][/\ \A i \in 1..Len(responses') : Len(responses'[i]) <= 1
       /\ \A i \in 1..Len(responses) :
            /\ responses'[i] # responses[i]
                 => (Consumed(i) \/ requests[i].stage = "receiving")
            /\ (i \in DOMAIN pending' /\ i \notin DOMAIN pending)
                 => (requests[i].stage = "receiving" /\ responses'[i] = <<>>)
            /\ (TimerFired(i) /\ i \notin DOMAIN pending)
                 => UNCHANGED <<responses, pending, approvedTools>>
       /\ (approvedTools' # approvedTools /\ approvedTools' # <<>>)
            => \E i \in DOMAIN pending : Consumed(i)
    ]_vars

\* The timer of a request has fired after an approve click had consumed its
\* id, on a request that carried a directory, while another id is pending.
C8_Witness ==
    \E i \in 1..Len(requests) :
        /\ requests[i].timer = "fired" /\ requests[i].post = "ok"
        /\ responses[i] = <<Reply(200, TRUE, "Approved by user")>>
        /\ requests[i].body.workingDirectory # NoDir
        /\ \E j \in 1..Len(requests) : j # i /\ j \in DOMAIN pending

\* C9: every request that created a pending approval is eventually answered,
\* even if nobody clicks and while the post of the prompt is still in flight.
C9_EventuallyResolved ==
    \A i \in 1..MaxRequests :
        (i \in DOMAIN pending) ~>
            (i \notin DOMAIN pending /\ i <= Len(responses) /\ Len(responses[i]) = 1)

\* C10: when the timer fires on an id that is still pending, the request is
\* answered deny, 'Permission request timed out', and the entry is deleted;
\* that answer is never followed or replaced by another, whatever is clicked
\* afterwards.
C10_TimeoutDenies ==
    [][\A i \in 1..Len(requests) :
        /\ (requests[i].timer = "armed" /\ requests'[i].timer = "fired"
              /\ i \in DOMAIN pending)
             => (responses'[i] = <<TimedOut>> /\ i \notin DOMAIN pending')
        /\ responses[i] = <<TimedOut>> => responses'[i] = <<TimedOut>>
        /\ (responses'[i] # <<>> /\ responses'[i][1].message = TimedOut.message)
             => responses'[i][1].behavior = "deny"
    ]_vars

\* The timer consumed the id of a posted prompt that nobody had clicked;
\* its buttons stay in the channel.
C10_Witness ==
    \E i \in 1..Len(requests) :
        /\ responses[i] = <<TimedOut>>
        /\ requests[i].timer = "fired" /\ requests[i].post = "ok"
        /\ requests[i].update = "none"
        /\ Clickable(i) /\ i \notin DOMAIN pending

\* The segments of the place a tool running in directory base touches when
\* it is given path p.
Location(base, p) ==
    Normalize(Split(IF p # <<>> /\ Head(p) = Sep THEN p ELSE base \o <<Sep>> \o p),
              <<>>)

\* Location loc is the directory dir or below it.
Inside(loc, dir) == Len(dir) <= Len(loc) /\ SubSeq(loc, 1, Len(dir)) = dir

\* The target of probe call p is directory p.workingDirectory or inside it.
TargetInside(p) ==
    Inside(Location(p.workingDirectory, extractToolTargetPath(p.toolName, p.input)),
           Location(p.workingDirectory, p.workingDirectory))

HasTarget(p) == extractToolTargetPath(p.toolName, p.input) # NoPath

Remembered(approved, d, t) == d \in DOMAIN approved /\ t \in approved[d]

\* C12: no request is auto-allowed when its target path, after "." and ".."
\* are normalised, is neither the working directory nor a descendant of it.
C12_NoAllowOutsideDirectory ==
    probe # <<>> =>
        LET p == probe[1] IN
        (p.workingDirectory # NoDir /\ HasTarget(p) /\ ~TargetInside(p))
            => ~p.allowed

\* C14: the decision for directory D and tool T is the same on every map
\* that agrees on whether T is remembered for D, whatever else is remembered
\* for other directories or tools; a request without a directory is never
\* auto-allowed.
C14_DecisionUsesOwnPairOnly ==
    probe # <<>> =>
        LET p == probe[1] IN
        /\ p.workingDirectory = NoDir => ~p.allowed
        /\ \A m \in Memories :
              (Remembered(m, p.workingDirectory, p.toolName)
                  = Remembered(approvedTools, p.workingDirectory, p.toolName))
              => (AutoApprovalCheck(m, Body(p.toolName, p.input, p.workingDirectory))
                    = p.allowed)

\* A request whose target is inside its directory was not allowed although
\* the same tool is remembered for the other directory and the other tool
\* for the same directory.
C14_Witness ==
    /\ probe # <<>>
    /\ LET p == probe[1] IN
       /\ ~p.allowed /\ p.workingDirectory = Repo /\ p.toolName = "Write"
       /\ HasTarget(p) /\ TargetInside(p)
       /\ Remembered(approvedTools, Repo2, "Write")
       /\ Remembered(approvedTools, Repo, "Edit")
       /\ ~Remembered(approvedTools, Repo, "Write")

AutoApproved == Reply(200, TRUE, "Auto-approved (previously approved for this directory)")
ApprovedByUser == Reply(200, TRUE, "Approved by user")
DeniedByUser == Reply(200, FALSE, "Denied by user")

\* A step in which the body of request i reached handlePermissionRequest.
Handled(i) ==
    /\ i \in 1..Len(requests)
    /\ requests[i].stage = "receiving" /\ requests'[i].stage # "receiving"
    /\ requests[i].body.parses /\ requests[i].body.record

\* C11: once tool T was approved for directory D (and the memory not
\* cleared), a request for T and D whose target is D or inside D is answered
\* allow at once, with no pending entry and no prompt; one whose target is
\* outside D gets a pending entry and a prompt.
C11_RememberedAllowsInside ==
    [][\A i \in 1..Len(requests) :
        LET q == requests[i].body IN
        (Handled(i) /\ q.workingDirectory # NoDir /\ HasTarget(q)
           /\ Remembered(approvedTools, q.workingDirectory, q.toolName))
        => IF TargetInside(q)
           THEN /\ requests'[i].stage = "auto" /\ requests'[i].post = "none"
                /\ responses'[i] = <<AutoApproved>>
                /\ UNCHANGED pending
           ELSE /\ requests'[i].stage = "prompted" /\ requests'[i].post = "inflight"
                /\ i \in DOMAIN pending' /\ responses'[i] = <<>>
    ]_vars

\* C13: the remembered approvals change only by being cleared or in a step
\* in which an approve click resolves an entry that is still pending and
\* carries a directory, and then by exactly that (directory, tool) pair;
\* auto-allows, denials, timeouts, failures and late clicks leave them alone.
C13_MemoryGainsOnlyOnApproval ==
    [][approvedTools' # approvedTools =>
        \/ approvedTools' = <<>>
        \/ \E i \in DOMAIN pending :
              /\ i \notin DOMAIN pending'
              /\ responses[i] = <<>> /\ responses'[i] = <<ApprovedByUser>>
              /\ pending[i].workingDirectory # NoDir
              /\ pending[i].workingDirectory = requests[i].body.workingDirectory
              /\ pending[i].toolName = requests[i].body.toolName
              /\ approvedTools' = rememberApproval(approvedTools, pending[i].toolName,
                                                  pending[i].workingDirectory)
    ]_vars

\* An approval that carried a directory was remembered and an approval
\* without a directory was not.
C13_Witness ==
    /\ approvedTools = (Repo :> {"Write"})
    /\ \E i, j \in 1..Len(requests) :
          /\ requests[i].body.workingDirectory = Repo
          /\ responses[i] = <<ApprovedByUser>>
          /\ requests[j].body.workingDirectory = NoDir
          /\ responses[j] = <<ApprovedByUser>>

ShuttingDown == Reply(200, FALSE, "Server shutting down")

\* C15: when stop has returned no pending entry remains, and every request
\* that created one, those whose body arrived after the drain loop
\* included, has been answered.
C15_StopLeavesNothingPending ==
    server = "closed" =>
        /\ pending = <<>>
        /\ \A i \in 1..Len(requests) :
              requests[i].stage = "prompted" => responses[i] # <<>>

\* C16: a request whose body is not a request record is answered 400,
\* 'Invalid request', in the step that reads it, and that step creates no
\* pending entry, posts nothing and leaves the remembered approvals alone.
C16_InvalidBodyGets400 ==
    [][\A i \in 1..Len(requests) :
        (requests[i].stage = "receiving" /\ requests'[i].stage # "receiving"
           /\ ~(requests[i].body.parses /\ requests[i].body.record))
        => /\ responses'[i] = <<Reply(400, FALSE, "Invalid request")>>
           /\ requests'[i].post = "none"
           /\ UNCHANGED <<pending, approvedTools>>
    ]_vars

PostFailed == Reply(200, FALSE, "Failed to send Slack message")

\* A step in which the post of the prompt of request i was rejected.
PostRejected(i) ==
    /\ i \in 1..Len(requests)
    /\ requests[i].post = "inflight" /\ requests'[i].post = "failed"

\* C17 as stated: whenever posting the prompt fails the request is answered
\* deny, 'Failed to send Slack message', its entry is deleted and the
\* remembered approvals are unchanged.
C17_PostFailureAlwaysDenies ==
    [][\A i \in 1..Len(requests) : PostRejected(i) =>
          /\ responses'[i] = <<PostFailed>>
          /\ i \notin DOMAIN pending'
          /\ UNCHANGED approvedTools
    ]_vars

\* C17, amended: when posting the prompt fails while the entry is still
\* pending the request is answered deny, 'Failed to send Slack message', and
\* the entry is deleted; when a click has resolved it already the failure
\* changes no answer. Either way the remembered approvals are unchanged, and
\* the timer that fires afterwards changes nothing.
C17_PostFailureDeniesPending ==
    [][\A i \in 1..Len(requests) :
        /\ PostRejected(i) =>
              /\ IF i \in DOMAIN pending
                 THEN responses[i] = <<>> /\ responses'[i] = <<PostFailed>>
                 ELSE responses[i] # <<>> /\ UNCHANGED responses
              /\ i \notin DOMAIN pending'
              /\ UNCHANGED approvedTools
        /\ (requests[i].post = "failed" /\ requests[i].timer = "armed"
              /\ requests'[i].timer = "fired")
             => UNCHANGED <<responses, pending, approvedTools>>
    ]_vars

\* The post of a prompt failed, the request was denied for that reason, and
\* its timer has fired since.
C17_Witness ==
    \E i \in 1..Len(requests) :
        /\ requests[i].post = "failed" /\ requests[i].timer = "fired"
        /\ responses[i] = <<PostFailed>>
        /\ requests[i].body.workingDirectory # NoDir

\* C18: a click on a pending entry answers the requester in the step of the
\* click, whether the update of the prompt message was started (and is then
\* slow, or fails) or skipped because the message handle is not known yet;
\* the outcome of the update changes no answer.
C18_DecisionDeliveredFirst ==
    [][\A i \in 1..Len(requests) :
        /\ (requests[i].update = "none" /\ requests'[i].update = "inflight")
             => /\ responses[i] = <<>>
                /\ responses'[i] \in {<<ApprovedByUser>>, <<DeniedByUser>>}
                /\ i \in DOMAIN pending /\ i \notin DOMAIN pending'
        /\ (requests[i].update = "inflight" /\ requests'[i].update # "inflight")
             => UNCHANGED <<responses, pending, approvedTools>>
        /\ (i \in DOMAIN pending /\ i \notin DOMAIN pending')
             => Len(responses'[i]) = 1
        /\ (i \in DOMAIN pending /\ ~pending[i].messageTs
              /\ i \notin DOMAIN pending')
             => requests'[i].update = "none"
    ]_vars

\* One click was answered although its update failed, another although the
\* handle of its prompt was not known yet.
C18_Witness ==
    \E i, j \in 1..Len(requests) :
        /\ requests[i].update = "failed" /\ responses[i] = <<ApprovedByUser>>
        /\ requests[j].update = "none" /\ requests[j].post = "inflight"
        /\ responses[j] = <<DeniedByUser>>

\* --------------------------------------------- claims: cancellation, release

\* A step in which the execution e was aborted.
Aborted(e) ==
    /\ e \in execs /\ ~e.aborted
    /\ \E x \in execs' : x.req = e.req /\ x.aborted

\* C19: an execution that was aborted ends reported as cancelled, not as
\* completed and not as an error, by whichever path it leaves the loop; its
\* slot is released as for any other end.
C19_AbortReportsCancelled ==
    [][\A e \in execs : (e.aborted /\ Released(e.req)) =>
          /\ reqs'[e.req].outcome \in {"cancelled", "cancelledRethrown"}
          /\ e.key \notin activeSessions'
          /\ activeConcurrency' = activeConcurrency - 1
    ]_vars

\* C20: a step that aborts an execution, or in which an execution ends and
\* releases its slot, leaves the pending approvals, their answers and the
\* remembered approvals as they were.
C20_ReleaseLeavesGateAlone ==
    [][((\E e \in execs : Aborted(e)) \/ (\E r \in 1..Len(reqs) : Released(r)))
          => UNCHANGED <<pending, responses, approvedTools, requests, server>>
    ]_vars

\* An execution was cancelled and released while the approval it had asked
\* for was pending; the entry and a remembered approval are still there.
C20_Witness ==
    \E i \in DOMAIN pending :
        /\ requests[i].by # 0
        /\ reqs[requests[i].by].outcome = "cancelled"
        /\ reqs[requests[i].by].releases = 1
        /\ responses[i] = <<>>
        /\ approvedTools # <<>>

\* ------------------------------------------- claims: answers and life cycle

InvalidRequest == Reply(400, FALSE, "Invalid request")

\* A step in which stop ran its drain loop.
Stopped == server = "listening" /\ server' = "closing"

\* A step in which a click consumed the pending entry i: no timer, no
\* failure of the post and no shutdown did.
Clicked(i) == Consumed(i) /\ ~TimerFired(i) /\ ~PostRejected(i) /\ ~Stopped

\* The reason strings of the answers.
Messages == {AutoApproved.message, ApprovedByUser.message, DeniedByUser.message,
             TimedOut.message, ShuttingDown.message, PostFailed.message,
             InvalidRequest.message}

\* C21: the answer a request gets names the event that produced it: allow
\* only as 'Approved by user' (a click) or as the auto-approval from the
\* remembered approvals; deny as 'Denied by user' (a click), 'Permission
\* request timed out' (the timer), 'Server shutting down' (stop) or 'Failed
\* to send Slack message' (the post failed); the strings differ pairwise.
C21_AnswerNamesItsCause ==
    [][/\ Cardinality(Messages) = 7
       /\ \A i \in 1..Len(responses) : responses'[i] # responses[i] =>
            LET a == responses'[i][Len(responses'[i])] IN
            /\ responses'[i] = Append(responses[i], a)
            /\ (a.behavior = "allow") = (a \in {ApprovedByUser, AutoApproved})
            /\ (a.message = AutoApproved.message) = (Handled(i) /\ ~Consumed(i))
            /\ (a.message = TimedOut.message) = (TimerFired(i) /\ Consumed(i))
            /\ (a.message = PostFailed.message) = (PostRejected(i) /\ Consumed(i))
            /\ (a.message = ShuttingDown.message) = (Stopped /\ Consumed(i))
            /\ (a.message \in {ApprovedByUser.message, DeniedByUser.message})
                 = Clicked(i)
            /\ a.message \in {AutoApproved.message, ApprovedByUser.message}
                 => a.behavior = "allow"
            /\ (approvedTools' # approvedTools /\ Consumed(i)) => a = ApprovedByUser
            /\ a.status = 200 \/ a = InvalidRequest
    ]_vars

\* One request was answered by the shutdown while its post was in flight,
\* another by the failure of its post.
C21_Witness ==
    \E i, j \in 1..Len(requests) :
        /\ responses[i] = <<ShuttingDown>> /\ requests[i].post = "inflight"
        /\ responses[j] = <<PostFailed>>

\* The life cycle of approval id i: CREATED once the pending entry is stored,
\* PROMPTED once the prompt has been posted, then the terminal state that its
\* answer names. NONE: no entry was created for the request.
ApprovalState(rq, resps, i) ==
    IF rq[i].stage # "prompted" THEN "NONE"
    ELSE IF resps[i] = <<>>
    THEN (IF rq[i].post = "ok" THEN "PROMPTED" ELSE "CREATED")
    ELSE LET a == resps[i][1] IN
         IF a = ApprovedByUser THEN "RESOLVED_ALLOW"
         ELSE IF a = TimedOut THEN "TIMED_OUT"
         ELSE IF a = ShuttingDown THEN "SHUTDOWN"
         ELSE "RESOLVED_DENY"

Terminal == {"RESOLVED_ALLOW", "RESOLVED_DENY", "TIMED_OUT", "SHUTDOWN"}

\* C22 as stated: each id goes CREATED, PROMPTED, then exactly one terminal
\* state; a terminal state is entered only from PROMPTED, is never left, and
\* an id in a terminal state has no pending entry.
C22_TerminalOnlyFromPrompted ==
    [][\A i \in 1..Len(requests) :
        LET s == ApprovalState(requests, responses, i)
            t == ApprovalState(requests', responses', i)
        IN /\ s # t => \/ s = "NONE" /\ t = "CREATED"
                       \/ s = "CREATED" /\ t = "PROMPTED"
                       \/ s = "PROMPTED" /\ t \in Terminal
           /\ Len(responses'[i]) <= 1
           /\ t \in Terminal => i \notin DOMAIN pending'
    ]_vars

\* C22, amended: each id goes CREATED, then PROMPTED if its prompt gets
\* posted, then exactly one terminal state; a terminal state is entered only
\* from CREATED or PROMPTED, in the step that deletes the pending entry;
\* TIMED_OUT is entered only from PROMPTED; a terminal state is never left
\* and an id in a terminal state has no pending entry.
C22_TerminalFromPending ==
    [][\A i \in 1..Len(requests) :
        \A s \in {ApprovalState(requests, responses, i)},
           t \in {ApprovalState(requests', responses', i)} :
           /\ s # t => \/ s = "NONE" /\ t = "CREATED"
                       \/ s = "CREATED" /\ t = "PROMPTED"
                       \/ s = "PROMPTED" /\ t \in Terminal
                       \/ s = "CREATED" /\ t \in Terminal \ {"TIMED_OUT"}
           /\ (s \notin Terminal /\ t \in Terminal) => Consumed(i)
           /\ Len(responses'[i]) <= 1
           /\ t \in Terminal => i \notin DOMAIN pending'
           /\ t \in {"CREATED", "PROMPTED"} => i \in DOMAIN pending'
    ]_vars

\* One id went from CREATED to a denial because its prompt could not be
\* posted, another from PROMPTED to TIMED_OUT.
C22_Witness ==
    \E i, j \in 1..Len(requests) :
        /\ ApprovalState(requests, responses, i) = "RESOLVED_DENY"
        /\ requests[i].post = "failed" /\ responses[i] = <<PostFailed>>
        /\ ApprovalState(requests, responses, j) = "TIMED_OUT"
        /\ requests[j].post = "ok"

\* ------------------------------------------------ claims: approval memory

\* The (directory, tool) pairs a request can name.
Pairs == {Repo, Repo2} \X {"Write", "Edit"}

\* C23: the remembered approvals change only by clearApprovals and by
\* rememberApproval, and both always take effect. After a clear no pair is
\* remembered, the summary is empty and the pending entries, their requests
\* and answers are as before; a request handled on an empty memory is
\* prompted. An approve click on a pending entry with a directory leaves its
\* pair remembered and the answer for every other pair as it was, and
\* nothing else changes the memory.
C23_ClearAndRememberOnly ==
    [][/\ ENABLED clearApprovals
       /\ approvedTools' # approvedTools =>
            \/ /\ approvedTools' = <<>>
               /\ getApprovalSummary(approvedTools') = {}
               /\ \A pr \in Pairs : ~Remembered(approvedTools', pr[1], pr[2])
               /\ \A pr \in Pairs :
                     ~AutoApprovalCheck(approvedTools', Body(pr[2], NoInput, pr[1]))
               /\ UNCHANGED <<pending, requests, responses>>
            \/ \E i \in DOMAIN pending :
                  /\ Clicked(i) /\ responses'[i] = <<ApprovedByUser>>
                  /\ approvedTools' = rememberApproval(approvedTools,
                        pending[i].toolName, pending[i].workingDirectory)
       /\ \A i \in DOMAIN pending :
            (Clicked(i) /\ responses'[i] = <<ApprovedByUser>>
               /\ pending[i].workingDirectory # NoDir)
            => LET D == pending[i].workingDirectory
                   T == pending[i].toolName
               IN /\ Remembered(approvedTools', D, T)
                  /\ \A pr \in Pairs \ {<<D, T>>} :
                        Remembered(approvedTools', pr[1], pr[2])
                          = Remembered(approvedTools, pr[1], pr[2])
                  /\ DOMAIN approvedTools' = DOMAIN approvedTools \cup {D}
       /\ \A i \in 1..Len(requests) :
            (Handled(i) /\ approvedTools = <<>>)
            => (requests'[i].stage = "prompted" /\ i \in DOMAIN pending')
    ]_vars

\* An approve click has remembered Edit for "/r" beside Write for "/r" and
\* Edit for "/r2", which were remembered before.
C23_Witness ==
    /\ approvedTools = (Repo :> {"Write", "Edit"}) @@ (Repo2 :> {"Edit"})
    /\ \E i \in 1..Len(requests) :
          /\ requests[i].body = Body("Edit", NoInput, Repo)
          /\ responses[i] = <<ApprovedByUser>>

\* ------------------------------------------------ claims: queues, dispatch

\* C24: every entry of the queue map has a non-empty queue, and no key has
\* two entries: a key enters the map with its first queued request and
\* leaves it in the step that dequeues its last one.
C24_NoEmptyQueueInMap ==
    /\ \A i \in 1..Len(sessionQueues) : Len(sessionQueues[i].queue) > 0
    /\ \A i, j \in 1..Len(sessionQueues) :
          sessionQueues[i].key = sessionQueues[j].key => i = j

\* A release has dequeued the only request of a key, queued behind its own
\* session, and the key has left the map, in which the other key remains.
C24_Witness ==
    /\ Len(immediates) = 1
    /\ reqs[immediates[1].req].notified = "QueuedSession"
    /\ Len(sessionQueues) = 1
    /\ sessionQueues[1].key # immediates[1].key

\* ----------------------------------------------------- claims: suspension

\* C25: while an execution e is suspended (it awaits its engine, a decision
\* on its permission request, or a channel call), a message for another key
\* is taken and, when that key is idle and the counter is below the cap,
\* started in the same step; every other execution can go on to its release
\* and can ask for permission; a request of another execution can be
\* handled, and a click resolves its pending entry, answering it and leaving
\* every other entry, every other answer and the executions untouched.
C25_SuspensionBlocksNoOne ==
    [][\A e \in execs :
        /\ \A k \in Keys \ {e.key} :
             /\ Len(reqs) < limits.reqs => ENABLED handleMessage(k)
             /\ (Submitted /\ reqs'[Len(reqs')].key = k /\ k \notin activeSessions
                   /\ activeConcurrency < maxConcurrency)
                  => /\ \E x \in execs' : x.req = Len(reqs') /\ x.key = k
                     /\ e \in execs'
        /\ \A o \in execs \ {e} :
             /\ (o.phase = "try" /\ ~o.aborted) => ENABLED TryCompletes(o)
             /\ (o.phase = "try" /\ o.aborted) => ENABLED TryBreaksOnAbort(o)
             /\ o.phase \in {"catchError", "catchAbort"} => ENABLED CatchReturns(o)
             /\ (o.phase = "try" /\ server = "listening"
                   /\ Len(requests) < limits.requests)
                  => \A body \in limits.bodies : ENABLED PermissionPrompt(o, body)
        /\ \A j \in 1..Len(requests) : requests[j].by # e.req =>
             /\ requests[j].stage = "receiving" => ENABLED handlePermissionRequest(j)
             /\ j \in DOMAIN pending =>
                  /\ \A a \in BOOLEAN : ENABLED resolveApproval(j, a)
                  /\ Clicked(j) =>
                       /\ responses'[j] \in {<<ApprovedByUser>>, <<DeniedByUser>>}
                       /\ \A i \in DOMAIN pending \ {j} :
                             /\ i \in DOMAIN pending' /\ pending'[i] = pending[i]
                             /\ responses'[i] = responses[i]
                       /\ UNCHANGED admVars
    ]_vars

\* Both conversations run; the permission request of one execution was
\* approved while that of the other is still pending.
C25_Witness ==
    \E i, j \in 1..Len(requests) :
        /\ requests[i].by # 0 /\ requests[j].by # 0 /\ requests[i].by # requests[j].by
        /\ Running(requests[i].by) /\ Running(requests[j].by)
        /\ i \in DOMAIN pending /\ responses[j] = <<ApprovedByUser>>
        /\ activeSessions = Keys /\ activeConcurrency = 2

\* The keys of the queue map, in its iteration order.
KeyOrder(queues) == [i \in 1..Len(queues) |-> queues[i].key]

\* The sequence s without the element x.
Without(s, x) == SelectSeq(s, LAMBDA y : y # x)

\* C26: a release that dispatches takes the first entry of the queue map, in
\* its iteration order, whose key is not active and whose queue is not
\* empty, and from it the request submitted first. The order is that of
\* insertion: a key new to the map (also one that was in it before and had
\* left it) is put last, a key already in the map keeps its place, and a
\* dequeue leaves the order of the other keys as it is.
C26_FirstKeyInMapOrder ==
    [][/\ \A r \in 1..Len(reqs) : Released(r) =>
            LET ok == {i \in 1..Len(sessionQueues) :
                         /\ sessionQueues[i].key \notin activeSessions'
                         /\ Len(sessionQueues[i].queue) > 0}
            IN IF ok = {} \/ activeConcurrency' >= maxConcurrency
               THEN UNCHANGED <<sessionQueues, immediates>>
               ELSE \E i \in ok :
                      /\ \A j \in ok : i <= j
                      /\ Len(immediates') = Len(immediates) + 1
                      /\ LET d == immediates'[Len(immediates')] IN
                         /\ d.key = sessionQueues[i].key
                         /\ \A n \in 1..Len(sessionQueues[i].queue) :
                               d.req <= sessionQueues[i].queue[n]
                         /\ reqs[d.req].key = d.key
                         /\ KeyOrder(sessionQueues') \in
                               {KeyOrder(sessionQueues),
                                Without(KeyOrder(sessionQueues), d.key)}
       /\ Submitted =>
            LET k == reqs'[Len(reqs')].key IN
            IF reqs'[Len(reqs')].notified = "none"
            THEN UNCHANGED sessionQueues
            ELSE IF QueueIndex(sessionQueues, k) = 0
            THEN KeyOrder(sessionQueues') = Append(KeyOrder(sessionQueues), k)
            ELSE KeyOrder(sessionQueues') = KeyOrder(sessionQueues)
       /\ sessionQueues' # sessionQueues
            => (Submitted \/ \E r \in 1..Len(reqs) : Released(r))
    ]_vars

\* Key B was queued before key A, left the map when its request was
\* dispatched, and was queued again behind A; the next release has taken
\* A's request and left B's in the map.
C26_Witness ==
    \E a, b \in 1..Len(reqs) :
        /\ b < a /\ reqs[b].key # reqs[a].key
        /\ reqs[b].notified = "QueuedBusy" /\ Done(b)
        /\ immediates = <<[key |-> reqs[a].key, req |-> a]>>
        /\ Len(sessionQueues) = 1 /\ sessionQueues[1].key = reqs[b].key
        /\ reqs[b].key \notin activeSessions
        /\ a < Head(sessionQueues[1].queue)

\* A step in which the callback of setImmediate ran.
DeferredStarted == immediates # <<>> /\ immediates' = Tail(immediates)

\* C27: a dequeued request is not started by the release that dequeued it
\* but by a later step, and when that step runs what the dequeue had checked
\* still holds: the key is not active and the counter is below the cap.
C27_DeferredStartConditionsHold ==
    [][/\ \A r \in 1..Len(reqs) : Released(r) =>
            \A x \in execs' : x \in execs
       /\ DeferredStarted =>
            /\ Head(immediates).key \notin activeSessions
            /\ activeConcurrency < maxConcurrency
            /\ \E x \in execs' \ execs : x.req = Head(immediates).req
    ]_vars

\* Request r waits in a queue of the map.
InQueue(r) ==
    \E i \in 1..Len(sessionQueues) :
        \E n \in 1..Len(sessionQueues[i].queue) : sessionQueues[i].queue[n] = r

\* C28: when every execution ends and every deferred start runs, each queued
\* request is eventually started, whatever arrives for the other keys.
C28_QueuedEventuallyStarted ==
    \A r \in 1..StarveReqs : InQueue(r) ~> Running(r)

RECURSIVE AllQueued(_)
AllQueued(queues) ==
    IF queues = <<>> THEN <<>> ELSE Head(queues).queue \o AllQueued(Tail(queues))

\* The requests that are queued, dequeued and waiting for their callback,
\* executing, and finished.
QueuedSet(queues) == LET q == AllQueued(queues) IN {q[n] : n \in 1..Len(q)}
DequeuedSet(imm) == {imm[n].req : n \in 1..Len(imm)}
ExecutingSet(ex) == {e.req : e \in ex}
FinishedSet(rq) == {r \in 1..Len(rq) : rq[r].releases > 0}

\* In how many places the requests are, all together.
Places(queues, imm, ex, rq) ==
    Len(AllQueued(queues)) + Len(imm) + Cardinality(ex) + Cardinality(FinishedSet(rq))

\* C30: every message taken by handleMessage is, from then on, in exactly
\* one place: once in the queue of its own key, or dequeued and waiting for
\* its deferred start, or executing under its own key, or finished (there
\* are as many places taken as requests, and every request has one). It
\* moves only from queued to dequeued, from dequeued to executing and from
\* executing to finished, and starts out queued or executing.
C30_EachRequestOnce ==
    [][LET Q == QueuedSet(sessionQueues)
           D == DequeuedSet(immediates)
           E == ExecutingSet(execs)
           F == FinishedSet(reqs)
           Qn == QueuedSet(sessionQueues')
           Dn == DequeuedSet(immediates')
           En == ExecutingSet(execs')
           Fn == FinishedSet(reqs')
           new == (1..Len(reqs')) \ (1..Len(reqs))
       IN /\ Places(sessionQueues', immediates', execs', reqs') = Len(reqs')
          /\ Qn \cup Dn \cup En \cup Fn = 1..Len(reqs')
          /\ \A r \in 1..Len(reqs') : reqs'[r].releases <= 1
          /\ \A i \in 1..Len(sessionQueues') :
                \A n \in 1..Len(sessionQueues'[i].queue) :
                   reqs'[sessionQueues'[i].queue[n]].key = sessionQueues'[i].key
          /\ \A n \in 1..Len(immediates') :
                reqs'[immediates'[n].req].key = immediates'[n].key
          /\ \A e \in execs' : reqs'[e.req].key = e.key
          /\ Qn \ Q \subseteq new /\ Q \ Qn \subseteq Dn
          /\ Dn \ D \subseteq Q /\ D \ Dn \subseteq En
          /\ En \ E \subseteq D \cup new /\ E \ En \subseteq Fn
          /\ Fn \ F \subseteq E /\ F \subseteq Fn
          /\ \A r \in new :
                r \in (IF reqs'[r].notified = "none" THEN En ELSE Qn)
    ]_vars

\* One request was started at once and has finished, another has gone from
\* its queue to its end, and a third, dequeued, waits for its deferred start.
C30_Witness ==
    \E a, b, c \in 1..Len(reqs) :
        /\ reqs[a].notified = "none" /\ Done(a)
        /\ reqs[b].notified # "none" /\ Done(b)
        /\ reqs[c].notified # "none" /\ c \in DequeuedSet(immediates)

\* ------------------------------------------ claims: working directories

\* The executions that begin in this step.
StartedNow == {e \in execs' : e.req \notin {x.req : x \in execs}}

\* C31: an execution runs in the directory configured for its conversation
\* at the moment it starts, whatever the directory was when its request was
\* submitted; it keeps that directory while it runs.
C31_RunsInDirectoryAtStart ==
    [][/\ \A e \in StartedNow : e.dir = getWorkingDirectory(configs, TRUE)
       /\ \A e \in execs' : \A x \in execs : x.req = e.req => e.dir = x.dir
      ]_vars

\* A request that waited runs in a directory set while it waited.
C31_Witness ==
    \E e \in execs :
        /\ reqs[e.req].notified # "none"
        /\ reqs[e.req].dir = Repo /\ e.dir = Repo2

\* C32: no execution is handed to the engine with an undefined working
\* directory, requests that waited included.
C32_ExecutionHasDirectory == \A e \in execs : e.dir # NoDir

\* ----------------------------------------------------- claims: commands

\* A command was answered in this step, or changed a directory.
CommandHandled == said' # said \/ configs' # configs

\* Every command can be handled now, whoever sends it.
CommandsEnabled ==
    \A k \in CommandUsers :
        /\ ENABLED handleSetCommand(k, TRUE, Repo2, TRUE)
        /\ ENABLED handleGetCommand(k, TRUE)
        /\ ENABLED handleResetCommand(k, TRUE)
        /\ ENABLED handleMcpInfoCommand(k)
        /\ ENABLED handleMcpReloadCommand(k, TRUE)
        /\ ENABLED handleDebugCommand(k, "sessions")

\* C33: a command message is handled at once in every state, also while its
\* conversation is active or the cap is reached, and the step that handles
\* it leaves the active set, the counter, the queues and the executions as
\* they were.
C33_CommandsBypassAdmission ==
    /\ []CommandsEnabled
    /\ [][CommandHandled => UNCHANGED admVars]_vars

\* The sender's conversation is running at the cap, in the directory it
\* started with, and its "cwd" command in the thread has been answered.
C33_Witness ==
    /\ said # <<>>
    /\ said[1].text = "Working directory set for this thread"
    /\ said[1].key \in activeSessions
    /\ activeConcurrency >= maxConcurrency
    /\ \E e \in execs :
          /\ e.key = said[1].key
          /\ e.dir # getWorkingDirectory(configs, TRUE)
          /\ getWorkingDirectory(configs, TRUE) = said[1].dir

\* ------------------------------------- claims: executions and the gate

\* C34: a consent request raised by an execution reaches the gate with the
\* working directory that execution runs in.
C34_RequestCarriesDirectory ==
    \A i \in 1..Len(requests) : \A e \in execs :
        requests[i].by = e.req => requests[i].body.workingDirectory = e.dir

\* What the bridge wrote first to the response of request i.
BridgeAnswer(i) == responses[i][1]
BridgeAnswered(i) == i # 0 /\ responses[i] # <<>>

\* C35: the relay returns allow only when the bridge answered allow; a call
\* made without a bridge port, or that never reached the bridge, returns
\* deny, and so does a call the bridge answered with deny (status 200 or
\* 400); a failed call returns deny.
C35_RelayFailsClosed ==
    \A c \in 1..Len(calls) :
        LET x == calls[c] IN
        /\ x.result.behavior \in {"none", "allow", "deny"}
        /\ x.result.behavior = "allow" =>
              BridgeAnswered(x.request) /\ BridgeAnswer(x.request).behavior = "allow"
        /\ x.request = 0 => x.result.behavior = "deny"
        /\ (x.result # NoResult /\ ~BridgeAnswered(x.request)) =>
              x.result.behavior = "deny"
        /\ (x.result # NoResult /\ BridgeAnswered(x.request)
              /\ BridgeAnswer(x.request).behavior = "deny") =>
              x.result.behavior = "deny"

\* A call came back with allow: the bridge had written the user's approval
\* to the request of that call.
C35_Witness ==
    \E c \in 1..Len(calls) :
        /\ calls[c].result.behavior = "allow"
        /\ BridgeAnswered(calls[c].request)
        /\ BridgeAnswer(calls[c].request).message = "Approved by user"

\* ------------------------------------------- claims: relative target paths

\* The target of probe call p is a relative path.
RelativeTarget(p) ==
    LET t == extractToolTargetPath(p.toolName, p.input) IN
    t # NoPath /\ Head(t) # Sep

\* C36: for a relative target the check decides on the place the tool
\* touches, the target resolved against the request's working directory:
\* the request is auto-allowed exactly when the tool is remembered for the
\* directory and that place is the directory or below it.
C36_RelativeResolvedInDirectory ==
    probe # <<>> =>
        LET p == probe[1] IN
        (p.workingDirectory # NoDir /\ RelativeTarget(p)) =>
            (p.allowed = (/\ Remembered(approvedTools, p.workingDirectory, p.toolName)
                          /\ TargetInside(p)))

\* --------------------------------------- claims: cancellation controllers

\* The controller map has a key for each active session and no other, and
\* the controller of key k belongs to the one execution of k in progress.
ControllersMatch(active, ctl, ex) ==
    /\ DOMAIN ctl = active
    /\ \A e \in ex : e.key \in DOMAIN ctl /\ ctl[e.key] = e.req
    /\ \A k \in DOMAIN ctl : \E e \in ex : e.key = k

\* C37: the keys of the controller map are the active keys, each controller
\* is the one of the execution of its key that is in progress, and an
\* execution that finishes removes its own controller and no other.
C37_ControllerOwnedByExecution ==
    [][/\ ControllersMatch(activeSessions', activeControllers', execs')
       /\ \A e \in execs :
             (e.req \notin {x.req : x \in execs'}) =>
                /\ e.key \in DOMAIN activeControllers
                /\ activeControllers[e.key] = e.req
                /\ DOMAIN activeControllers' = DOMAIN activeControllers \ {e.key}
      ]_vars

=============================================================================
